---- MODULE Spec2Model ----
(***************************************************************************)
(* A model of the function-invocation runtime of offf-go: the invocation   *)
(* context (package context), the per-invocation RuntimeManager (package   *)
(* runtime) and the Async (Eventing) adapter (package runtime/async).      *)
(*                                                                         *)
(* Go pointers are modelled as sequences of length 0 (nil) or 1.           *)
(***************************************************************************)
EXTENDS Integers, Sequences, FiniteSets, TLC

\* ------------------------------------------------------------------ bounds
MaxInv == 2
MaxCallers == 2
MaxClients == 3
MaxSends == 2

\* --------------------------------------------------------------- constants
Success == 200
InternalError == 500

Nil == <<>>
Ptr(x) == <<x>>
NoError == <<>>

Inv == 1..MaxInv
Callers == 1..MaxCallers
InputNames == {"in1", "in2"}
HookNames == {"A", "B"}
OpenFuncBinding == "bindings"
OpenFuncTopic == "pubsub"

\* ------------------------------------------------------------------- state
VARIABLES
    env,          \* what parseContext reads: FUNC_CONTEXT and the environment
    parsed,       \* what parseContext returned: nil before the call
    runtime,      \* fwk.runtime: "" is nil, else the adapter constructed
    created,      \* what createRuntime returned: nil before the call
    testMode,     \* TEST_MODE = "on"
    fn,           \* the function value the program passes to Register
    InputsNil,    \* ctx.Inputs is the nil map
    Inputs,       \* ctx.Inputs: name -> [Type, Uri, Component]
    EventMeta,    \* ctx.EventMeta: [InputName, BindingEvent, TopicEvent, CloudEvent]
    Out,          \* ctx.Out: pointer to the Out record
    Error,        \* ctx.Error
    Outputs,      \* ctx.Outputs: name -> [Type, Uri, Component, Operation, Metadata]
    OutputsNil,   \* ctx.Outputs is the nil map
    daprClient,   \* ctx.daprClient: 0 is nil, n > 0 the n-th client built
    closes,       \* closes[n]: the Close() calls made on the n-th client built
    broker,       \* the calls the dapr sidecar has received from the clients
    sent,         \* the last Send: nil or [outputName, in, calls, data, err]
    PrePlugins,   \* ctx.PrePlugins: the configured pre-hook names
    PostPlugins,  \* ctx.PostPlugins: the configured post-hook names
    pluginMap,    \* fwk.pluginMap: the hook registry, name -> plugin
    prePlugins,   \* fwk.prePlugins, handed to RegisterOpenFunction
    postPlugins,  \* fwk.postPlugins, handed to RegisterOpenFunction
    handlers,     \* handlers attached to the dapr service
    reg,          \* the Register call: [pc, todo, ret, called]
    name,         \* the loop variable `name` of RegisterOpenFunction
    rm,           \* one RuntimeManager (and handler invocation) per event
    stateA,       \* plugin instance id -> its state field
    crashed,      \* the process has panicked
    mu,           \* ctx.mu: 0 is unlocked, g > 0 locked by goroutine g
    caller        \* the goroutines calling the client methods: [op, pc, old]

vars == <<env, parsed, runtime, created, testMode, fn, InputsNil, Inputs, Outputs, OutputsNil, EventMeta, Out,
          Error, daprClient, closes, broker, sent, PrePlugins, PostPlugins,
          pluginMap, prePlugins, postPlugins, handlers, reg, name, rm, stateA,
          crashed, mu, caller>>

sendVars == <<Outputs, OutputsNil, broker, sent>>

envVars == <<env, parsed, runtime, created>>

lockVars == <<mu, caller>>

\* What neither registration nor an invocation writes.
cfgVars == <<testMode, fn, InputsNil, PrePlugins, PostPlugins, pluginMap,
             prePlugins, postPlugins, sendVars, envVars, lockVars>>

\* --------------------------------------------------------------- context
\* reflect.DeepEqual(ctx.Inputs, map[string]*Input{}): a nil map is not
\* deeply equal to an empty non-nil map.
HasInputs == ~ (~InputsNil /\ DOMAIN Inputs = {})

HasOutputs == ~ (~OutputsNil /\ DOMAIN Outputs = {})

NewFunctionOut == [Code |-> 0, Data |-> Nil, Metadata |-> {}]

GetOut == Out

GetError == Error

GetBindingEventMeta == EventMeta.BindingEvent

GetTopicEventMeta == EventMeta.TopicEvent

\* (*Out).GetCode / GetData / GetMetadata on a non-nil pointer
GetCode(o) == o[1].Code

GetData(o) == o[1].Data

GetMetadata(o) == o[1].Metadata

\* strings.EqualFold on the strings the model uses
Fold(s) == CASE s = "TRUE" -> "true"
             [] s = "True" -> "true"
             [] s = "FALSE" -> "false"
             [] OTHER -> s

EqualFold(s, t) == Fold(s) = Fold(t)

\* json.Marshal of a value that is not a byte slice
JsonMarshal(v) == <<"json", v>>

\* json.Marshal returns an error for v (a channel, a function, ...).
JsonMarshalFails(v) == v[1] = "chan"

\* data is a []byte (isBytes) or another value; nil when json.Marshal fails.
convertTopicEventToByte(data) ==
    IF data.isBytes THEN data.v
    ELSE IF JsonMarshalFails(data.v) THEN Nil
    ELSE JsonMarshal(data.v)

\* ------------------------------------------------------------- hook plugins
\* A plugin value: its Name() and the identity of the instance.
RegistryPlugin(n) == [Name |-> n, id |-> <<0, 0>>]

\* A plugin the caller hands to RegisterPlugins.
CustomPlugin(n) == [Name |-> n, id |-> <<0, 1>>]

\* Plugin.Init(): a new instance of the same plugin, for one invocation.
PluginInit(plg, id) == [Name |-> plg.Name, id |-> id]

\* initLoop calling Init() for every list entry, never reusing an instance.
RECURSIVE initLoopAlwaysInit(_, _, _)
initLoopAlwaysInit(plgs, i, s) ==
    IF plgs = <<>> THEN s
    ELSE LET plg == Head(plgs)
             p == PluginInit(plg, <<i, Len(s.inits) + 1>>)
         IN initLoopAlwaysInit(Tail(plgs), i,
                [pluginState |-> [n \in DOMAIN s.pluginState \cup {plg.Name} |->
                                     IF n = plg.Name THEN p ELSE s.pluginState[n]],
                 inits |-> Append(s.inits, p),
                 new |-> Append(s.new, p)])

\* One loop of RuntimeManager.init over a plugin list. s carries
\* pluginState, the Init() calls made so far and the new list.
RECURSIVE initLoop(_, _, _)
initLoop(plgs, i, s) ==
    IF plgs = <<>> THEN s
    ELSE LET plg == Head(plgs) IN
         IF plg.Name \in DOMAIN s.pluginState
         THEN initLoop(Tail(plgs), i,
                       [s EXCEPT !.new = Append(@, s.pluginState[plg.Name])])
         ELSE LET p == PluginInit(plg, <<i, Len(s.inits) + 1>>) IN
              initLoop(Tail(plgs), i,
                       [pluginState |-> s.pluginState @@ (plg.Name :> p),
                        inits |-> Append(s.inits, p),
                        new |-> Append(s.new, p)])

\* RuntimeManager.init resolving the post list against a pluginState of its
\* own instead of the one the pre list filled.
RuntimeManagerInitSeparate(pre, post, i) ==
    LET s0 == [pluginState |-> <<>>, inits |-> <<>>, new |-> <<>>]
        s1 == initLoop(pre, i, s0)
        s2 == initLoop(post, i, [s0 EXCEPT !.inits = s1.inits])
    IN [prePlugins |-> s1.new, postPlugins |-> s2.new,
        pluginState |-> s2.pluginState, inits |-> s2.inits]

\* RuntimeManager.init: pluginState starts empty; the pre list is resolved
\* first, then the post list against the same pluginState.
RuntimeManagerInit(pre, post, i) ==
    LET s0 == [pluginState |-> <<>>, inits |-> <<>>, new |-> <<>>]
        s1 == initLoop(pre, i, s0)
        s2 == initLoop(post, i, [s1 EXCEPT !.new = <<>>])
    IN [prePlugins |-> s1.new, postPlugins |-> s2.new,
        pluginState |-> s2.pluginState, inits |-> s2.inits]

\* NewRuntimeManager: FuncOut is the context's Out if there is one, else a
\* new empty Out.
NewFuncOut == IF GetOut /= Nil THEN GetOut ELSE Ptr(NewFunctionOut)

\* A context as parseContext leaves it: EventMeta and SyncRequestMeta
\* allocated and empty, no error.
RequestContext ==
    [SyncRequestMeta |-> [ResponseWriter |-> Nil, Request |-> Nil],
     CloudEvent |-> Nil, Error |-> NoError]

\* The response of an HTTP request before anything is written.
NoResponse == [status |-> 0, body |-> <<>>]

\* FuncContext is used by the Knative runtime only, which hands the manager
\* a context built for the request; the Async runtime hands every manager
\* the context of the process (Out, Error, EventMeta). resp is the response
\* of the request the manager was made for.
IdleRm == [pc |-> "idle", kind |-> "", key |-> "", ev |-> Nil,
           FuncContext |-> RequestContext, resp |-> NoResponse,
           FuncOut |-> Nil, prePlugins |-> <<>>, postPlugins |-> <<>>,
           pluginState |-> <<>>, inits |-> <<>>, log |-> <<>>,
           failed |-> FALSE, steps |-> <<>>,
           arg |-> Nil, fnOut |-> Nil, fnErr |-> NoError,
           ret |-> [data |-> Nil, retry |-> FALSE, err |-> NoError]]

\* ---------------------------------------------------------- function values
\* A function value is its signature: parameter types and result types.
HTTPFunction == [in |-> <<"http.ResponseWriter", "*http.Request">>,
                 out |-> <<"error">>]

OpenFunction == [in |-> <<"ofctx.Context", "[]byte">>,
                 out |-> <<"ofctx.Out", "error">>]

CloudEventFunction == [in |-> <<"context.Context", "cloudevents.Event">>,
                       out |-> <<"error">>]

\* The values handed to Register: the three shapes, an HTTP handler that
\* returns nothing (HelloWorldWithHttp) and a func().
FnValues ==
    { HTTPFunction, OpenFunction, CloudEventFunction,
      [in |-> <<"http.ResponseWriter", "*http.Request">>, out |-> <<>>],
      [in |-> <<>>, out |-> <<>>] }

\* The type switch of Register deciding on the parameter types alone.
ClassifyByParams(f) ==
    IF f.in = HTTPFunction.in THEN "http"
    ELSE IF f.in = OpenFunction.in THEN "openfunction"
    ELSE IF f.in = CloudEventFunction.in THEN "cloudevent"
    ELSE "unrecognized"

\* The type assertions of Register, tried in order.
Classify(f) ==
    IF f = HTTPFunction THEN "http"
    ELSE IF f = OpenFunction THEN "openfunction"
    ELSE IF f = CloudEventFunction THEN "cloudevent"
    ELSE "unrecognized"

\* ------------------------------------------------------------ configuration
InputOf(t, n) == [Type |-> t, Uri |-> "uri-" \o n, Component |-> "cmp-" \o n]

\* The declared inputs of the configurations explored: none, one binding,
\* one topic, and a binding together with a topic.
InputConfigs ==
    { <<>>,
      [n \in {"in1"} |-> InputOf(OpenFuncBinding, n)],
      [n \in {"in1"} |-> InputOf(OpenFuncTopic, n)],
      [n \in InputNames |->
          InputOf(IF n = "in1" THEN OpenFuncBinding ELSE OpenFuncTopic, n)],
      [n \in {"in1"} |-> InputOf("invalid", n)],
      [n \in InputNames |->
          InputOf(IF n = "in1" THEN OpenFuncBinding ELSE "invalid", n)] }

OutputNames == {"out1", "out2"}

OutputOf(t, n) == [Type |-> t, Uri |-> "uri-" \o n, Component |-> "cmp-" \o n,
                   Operation |-> "create", Metadata |-> {<<"k", n>>}]

\* The declared outputs of the configurations explored: none, one topic,
\* one binding, a topic together with a binding, and an unknown type.
OutputConfigs ==
    { <<>>,
      [n \in {"out1"} |-> OutputOf(OpenFuncTopic, n)],
      [n \in {"out1"} |-> OutputOf(OpenFuncBinding, n)],
      [n \in OutputNames |->
          OutputOf(IF n = "out1" THEN OpenFuncTopic ELSE OpenFuncBinding, n)],
      [n \in {"out1"} |-> OutputOf("invalid", n)] }

Err(msg) == <<msg>>

ValidType(t) == t \in {OpenFuncBinding, OpenFuncTopic}

\* The error parseContext returns for the inputs and outputs it has
\* unmarshalled: each validation loop is guarded by !ctx.HasInputs() and
\* !ctx.HasOutputs().
parseContext ==
    IF ~HasInputs /\ \E n \in DOMAIN Inputs : ~ValidType(Inputs[n].Type)
    THEN Err("invalid input type")
    ELSE IF ~HasOutputs /\ \E n \in DOMAIN Outputs : ~ValidType(Outputs[n].Type)
    THEN Err("invalid output type")
    ELSE NoError


\* The error value returned by the function body in invocation i.
FnError(i) == <<"function error", i>>

\* The Results a function body may return: code, payload and the "retry"
\* metadata entry (absent, or one of several spellings).
CodeMd ==
    { <<Success, {}>>, <<Success, {<<"retry", "true">>}>>,
      <<InternalError, {}>>, <<InternalError, {<<"retry", "true">>}>>,
      <<InternalError, {<<"retry", "TRUE">>}>>,
      <<InternalError, {<<"retry", "false">>}>>,
      <<InternalError, {<<"retry", "maybe">>}>>,
      <<404, {<<"retry", "true">>}>> }

FnOuts(i) ==
    { [Code |-> cm[1], Data |-> <<"out", i>>, Metadata |-> cm[2]] : cm \in CodeMd }

\* (FunctionOut, error) pairs: the FunctionOut is a nil interface or an Out.
FnRets(i) == ({Nil} \cup {Ptr(o) : o \in FnOuts(i)}) \X {NoError, FnError(i)}

\* A function body that succeeds, or fails with `return nil, err`.
FnRetsFew(i) ==
    { <<Ptr([Code |-> Success, Data |-> <<"out", i>>, Metadata |-> {}]), NoError>>,
      <<Nil, FnError(i)>> }

\* The events a handler may be handed in invocation i.
BindingEvents(i) == { [Data |-> <<"binding", i>>] }

TopicEvents(i) ==
    { [Data |-> [isBytes |-> b, v |-> <<"topic", i>>]] : b \in BOOLEAN }

\* The HTTP requests the Knative runtime may serve as request i.
Requests(i) == { [Method |-> "GET", Body |-> <<"request", i>>] }

\* cloudevents.Event{}
EmptyEvent == [ID |-> "", Data |-> <<>>]

\* The valid CloudEvents the Knative runtime may be delivered as request i.
CloudEvents(i) == { [ID |-> <<"id", i>>, Data |-> <<"msg", i>>] }

\* The framework NewFramework returned for a configuration with runtime
\* Async.
InitAsync ==
    /\ env = Nil
    /\ parsed = Nil
    /\ runtime = "async"
    /\ created = Nil

\* A goroutine that has not called a client method.
IdleCaller == [op |-> "", pc |-> "idle", old |-> 0]

\* The context and the framework apart from the dapr client.
InitIdle ==
    /\ EventMeta = [InputName |-> "", BindingEvent |-> Nil, TopicEvent |-> Nil,
                    CloudEvent |-> Nil]
    /\ Out = Nil
    /\ Error = NoError
    /\ mu = 0
    /\ caller = [g \in Callers |-> IdleCaller]
    /\ broker = <<>>
    /\ sent = Nil
    /\ handlers = {}
    /\ reg = [pc |-> "new", todo |-> {}, ret |-> NoError, called |-> <<>>]
    /\ name = ""
    /\ pluginMap = <<>>
    /\ prePlugins = <<>>
    /\ postPlugins = <<>>
    /\ rm = [i \in Inv |-> IdleRm]
    /\ stateA = <<>>
    /\ crashed = FALSE

\* The context parseContext returned holds no dapr client.
InitCommon ==
    /\ daprClient = 0
    /\ closes = <<>>
    /\ InitIdle

\* The Eventing adapter under every input configuration, with no hook
\* configured (prePlugins and postPlugins absent from FUNC_CONTEXT).
Init ==
    /\ testMode \in BOOLEAN
    /\ fn \in FnValues
    /\ InputsNil \in BOOLEAN
    /\ Inputs \in InputConfigs
    /\ InputsNil => Inputs = <<>>
    /\ Outputs = <<>>
    /\ OutputsNil = FALSE
    /\ PrePlugins = <<>>
    /\ PostPlugins = <<>>
    /\ parseContext = NoError
    /\ InitAsync
    /\ InitCommon

\* The (pre-hook, post-hook) name lists of the configurations explored: a
\* hook shared by both lists in opposite orders, a name repeated within a
\* list, and an empty list on either side.
HookConfigs ==
    { << <<"A", "B">>, <<"B", "A">> >>,
      << <<"A", "A">>, <<"A">> >>,
      << <<>>, <<"B", "B">> >>,
      << <<"A">>, <<>> >> }

\* The Eventing adapter with one binding input, under every hook
\* configuration.
InitHooks ==
    /\ testMode = FALSE
    /\ fn = OpenFunction
    /\ InputsNil = FALSE
    /\ Inputs = [n \in {"in1"} |-> InputOf(OpenFuncBinding, n)]
    /\ Outputs = <<>>
    /\ OutputsNil = FALSE
    /\ \E c \in HookConfigs : PrePlugins = c[1] /\ PostPlugins = c[2]
    /\ InitAsync
    /\ InitCommon

\* The context under every output configuration, with one binding input
\* and no hook.
InitContext ==
    /\ testMode \in BOOLEAN
    /\ fn = OpenFunction
    /\ InputsNil = FALSE
    /\ Inputs = [n \in {"in1"} |-> InputOf(OpenFuncBinding, n)]
    /\ OutputsNil \in BOOLEAN
    /\ Outputs \in OutputConfigs
    /\ OutputsNil => Outputs = <<>>
    /\ PrePlugins = <<>>
    /\ PostPlugins = <<>>
    /\ parseContext = NoError
    /\ InitAsync
    /\ InitCommon

\* ------------------------------------------------------------ parseContext
Async == "Async"
Knative == "Knative"
KubernetesMode == "kubernetes"
SelfHostMode == "self-host"
TracingProviderSkywalking == "skywalking"
TracingProviderOpentelemetry == "opentelemetry"

hasPlugin(plugins, target) == \E k \in DOMAIN plugins : plugins[k] = target

\* registerTracingPluginIntoPrePlugins: a nil list becomes the empty list.
registerTracingPluginIntoPrePlugins(plugins, target) ==
    IF ~hasPlugin(plugins, target) THEN Append(plugins, target) ELSE plugins

\* The tracing plugin appended to the post-plugins.
registerTracingPluginAtEnd(plugins, target) ==
    [panic |-> FALSE,
     plugins |-> IF ~hasPlugin(plugins, target) THEN Append(plugins, target)
                 ELSE plugins]

\* registerTracingPluginIntoPostPlugins: plugins[:1] of a nil or empty slice
\* panics; append(plugins[:1], plugins[:]...) is plugins[0] followed by
\* plugins, whether or not append reallocates, and plugins[0] = target then
\* overwrites the first entry.
registerTracingPluginIntoPostPlugins(plugins, target) ==
    IF hasPlugin(plugins, target) THEN [panic |-> FALSE, plugins |-> plugins]
    ELSE IF plugins = <<>> THEN [panic |-> TRUE, plugins |-> plugins]
    ELSE LET appended == <<plugins[1]>> \o plugins IN
         [panic |-> FALSE, plugins |-> [appended EXCEPT ![1] = target]]

\* strconv.Atoi(port) succeeds.
IsNumber(port) == port \in {"8080", "50001"}

\* What parseContext returns when it stops with err.
ParseError(e, err) ==
    [err |-> err, panic |-> FALSE, Runtime |-> e.Runtime, mode |-> "",
     podName |-> "", podNamespace |-> "", PrePlugins |-> e.PrePlugins,
     PostPlugins |-> e.PostPlugins, Port |-> e.Port]

\* The runtime check of parseContext accepting any runtime.
RuntimeErrorNone(e) == NoError

\* switch ctx.Runtime
RuntimeError(e) ==
    IF e.Runtime \in {Async, Knative} THEN NoError ELSE Err("invalid runtime")

\* The mode switch of parseContext.
ModeOf(e) == IF e.CONTEXT_MODE = SelfHostMode THEN SelfHostMode ELSE KubernetesMode

\* The pod checks of parseContext asking for the pod name only.
PodErrorNameOnly(e) ==
    IF ModeOf(e) = KubernetesMode /\ e.POD_NAME = ""
    THEN Err("the name of the pod cannot be retrieved from the environment")
    ELSE NoError

\* if ctx.mode == KubernetesMode: POD_NAME and POD_NAMESPACE must be set.
PodError(e) ==
    IF ModeOf(e) /= KubernetesMode THEN NoError
    ELSE IF e.POD_NAME = ""
    THEN Err("the name of the pod cannot be retrieved from the environment")
    ELSE IF e.POD_NAMESPACE = ""
    THEN Err("the namespace of the pod cannot be retrieved from the environment")
    ELSE NoError

TracingEnabled(e) == e.PluginsTracing /= Nil /\ e.PluginsTracing[1].Enable

\* The tracing check of parseContext accepting every non-empty provider name.
TracingErrorAnyName(e) ==
    IF ~TracingEnabled(e) THEN NoError
    ELSE LET provider == e.PluginsTracing[1].Provider IN
         IF provider /= Nil /\ provider[1].Name /= "" THEN NoError
         ELSE Err("the tracing plugin is enabled, but its configuration is incorrect")

\* if ctx.PluginsTracing != nil && ctx.PluginsTracing.Enable: the provider
\* must be present, named, and one of the known providers.
TracingError(e) ==
    IF ~TracingEnabled(e) THEN NoError
    ELSE LET provider == e.PluginsTracing[1].Provider IN
         IF provider /= Nil /\ provider[1].Name /= ""
         THEN IF provider[1].Name \in {TracingProviderSkywalking,
                                       TracingProviderOpentelemetry}
              THEN NoError
              ELSE Err("invalid tracing provider name")
         ELSE Err("the tracing plugin is enabled, but its configuration is incorrect")

\* parseContext on the environment e, the inputs and outputs being those of
\* the context.
parseEnv(e) ==
    IF RuntimeError(e) /= NoError THEN ParseError(e, RuntimeError(e))
    ELSE IF parseContext /= NoError THEN ParseError(e, parseContext)
    ELSE IF PodError(e) /= NoError THEN ParseError(e, PodError(e))
    ELSE IF TracingError(e) /= NoError THEN ParseError(e, TracingError(e))
    ELSE LET target == e.PluginsTracing[1].Provider[1].Name
             pre == IF TracingEnabled(e)
                    THEN registerTracingPluginIntoPrePlugins(e.PrePlugins, target)
                    ELSE e.PrePlugins
             post == IF TracingEnabled(e)
                     THEN registerTracingPluginIntoPostPlugins(e.PostPlugins, target)
                     ELSE [panic |-> FALSE, plugins |-> e.PostPlugins]
             ok == [err |-> NoError, panic |-> FALSE, Runtime |-> e.Runtime,
                    mode |-> ModeOf(e),
                    podName |-> IF ModeOf(e) = KubernetesMode THEN e.POD_NAME ELSE "",
                    podNamespace |-> IF ModeOf(e) = KubernetesMode
                                     THEN e.POD_NAMESPACE ELSE "",
                    PrePlugins |-> pre, PostPlugins |-> post.plugins,
                    Port |-> IF e.Port = "" THEN "8080" ELSE e.Port]
         IN IF post.panic THEN [ok EXCEPT !.panic = TRUE]
            ELSE IF e.Port /= "" /\ ~IsNumber(e.Port)
            THEN ParseError(e, Err("error parsing port"))
            ELSE ok

\* knative.NewKnativeRuntime(port, pattern) returns the Knative runtime; it
\* has no error result.
NewKnativeRuntime == "knative"

\* async.NewAsyncRuntime(port); serviceOk is whether the dapr grpc service
\* can be created.
NewAsyncRuntime(serviceOk) ==
    IF serviceOk THEN [runtime |-> "async", err |-> NoError]
    ELSE [runtime |-> "", err |-> Err("failed to create dapr grpc service")]

\* createRuntime for the runtime rt.
createRuntime(rt, serviceOk) ==
    IF rt = Knative THEN [runtime |-> NewKnativeRuntime, err |-> NoError]
    ELSE IF rt = Async THEN NewAsyncRuntime(serviceOk)
    ELSE [runtime |-> "", err |-> Err("runtime is nil")]

\* The tracing sections of FUNC_CONTEXT explored.
Tracings ==
    {Nil} \cup
    { Ptr([Enable |-> FALSE, Provider |-> Ptr([Name |-> TracingProviderSkywalking])]),
      Ptr([Enable |-> TRUE, Provider |-> Nil]) } \cup
    { Ptr([Enable |-> TRUE, Provider |-> Ptr([Name |-> n])]) :
        n \in {"", TracingProviderSkywalking, TracingProviderOpentelemetry, "zipkin"} }

\* The (prePlugins, postPlugins) lists of FUNC_CONTEXT explored: absent,
\* without the tracing plugin, and with it at the head and further back.
PluginLists ==
    { << <<>>, <<>> >>,
      << <<"A">>, <<"A">> >>,
      << <<"A", "B">>, <<"B", "A">> >>,
      << <<"skywalking", "A">>, <<"skywalking", "A">> >>,
      << <<"A", "skywalking">>, <<"A", "skywalking">> >> }

Envs ==
    { [Runtime |-> rt, Port |-> port, CONTEXT_MODE |-> mode, POD_NAME |-> pod[1],
       POD_NAMESPACE |-> pod[2], PluginsTracing |-> tr, PrePlugins |-> pl[1],
       PostPlugins |-> pl[2]] :
        rt \in {Async, Knative, "async"}, port \in {"", "abc"},
        mode \in {SelfHostMode, KubernetesMode, ""},
        pod \in {<<"", "">>, <<"pod", "">>, <<"", "ns">>, <<"pod", "ns">>},
        tr \in Tracings, pl \in PluginLists }

\* The process before NewFramework, under every environment.
InitConfig ==
    /\ env \in Envs
    /\ parsed = Nil
    /\ runtime = ""
    /\ created = Nil
    /\ testMode = FALSE
    /\ fn = OpenFunction
    /\ InputsNil = FALSE
    /\ Inputs = [n \in {"in1"} |-> InputOf(OpenFuncBinding, n)]
    /\ Outputs = <<>>
    /\ OutputsNil = FALSE
    /\ PrePlugins = <<>>
    /\ PostPlugins = <<>>
    /\ InitCommon

cfgRest == <<lockVars, env, testMode, fn, InputsNil, Inputs, sendVars, EventMeta, Out,
             Error, daprClient, closes, pluginMap, prePlugins, postPlugins,
             handlers, reg, name, rm, stateA>>

\* NewFramework calls parseContext.
ParseContext ==
    /\ ~crashed
    /\ parsed = Nil
    /\ LET r == parseEnv(env) IN
       /\ parsed' = Ptr(r)
       /\ crashed' = r.panic
       /\ PrePlugins' = IF r.err = NoError /\ ~r.panic THEN r.PrePlugins ELSE PrePlugins
       /\ PostPlugins' = IF r.err = NoError /\ ~r.panic THEN r.PostPlugins ELSE PostPlugins
    /\ UNCHANGED <<cfgRest, runtime, created>>

\* NewFramework calls createRuntime once parseContext has succeeded.
CreateRuntime(serviceOk) ==
    /\ ~crashed
    /\ parsed /= Nil
    /\ parsed[1].err = NoError
    /\ created = Nil
    /\ LET r == createRuntime(parsed[1].Runtime, serviceOk) IN
       /\ runtime' = r.runtime
       /\ created' = Ptr(r)
    /\ UNCHANGED <<cfgRest, parsed, PrePlugins, PostPlugins, crashed>>

NextConfig ==
    \/ ParseContext
    \/ \E serviceOk \in BOOLEAN : CreateRuntime(serviceOk)

SpecConfig == InitConfig /\ [][NextConfig]_vars

\* -------------------------------------------------------- RegisterPlugins
\* The customPlugins arguments explored: nil, and a map with a name that
\* collides with the default plugin and a name that does not.
CustomPluginMaps == { <<>>, [n \in HookNames |-> CustomPlugin(n)] }

\* fwk.pluginMap with the custom plugins registered over the default ones.
RegisterPluginMapOverride(customPlugins) ==
    [n \in {"A"} \cup DOMAIN customPlugins |->
        IF n \in DOMAIN customPlugins THEN customPlugins[n] ELSE RegistryPlugin("A")]

\* fwk.pluginMap: the default plugins, then every custom plugin whose name
\* is not in the map yet.
RegisterPluginMap(customPlugins) ==
    [n \in {"A"} \cup DOMAIN customPlugins |->
        IF n = "A" THEN RegistryPlugin("A") ELSE customPlugins[n]]

\* The loop over the names with the plugin put in front of the list.
RECURSIVE prependRegistered(_, _, _)
prependRegistered(names, pm, list) ==
    IF names = <<>> THEN list
    ELSE prependRegistered(Tail(names), pm,
             IF Head(names) \in DOMAIN pm THEN <<pm[Head(names)]>> \o list
             ELSE list)

\* for _, plgName := range names: append the plugin if the map has it.
RECURSIVE appendRegistered(_, _, _)
appendRegistered(names, pm, list) ==
    IF names = <<>> THEN list
    ELSE appendRegistered(Tail(names), pm,
             IF Head(names) \in DOMAIN pm THEN Append(list, pm[Head(names)])
             ELSE list)

\* Framework.RegisterPlugins, called on the new framework before Register.
RegisterPlugins(customPlugins) ==
    /\ ~crashed
    /\ reg.pc = "new"
    /\ pluginMap = <<>>
    /\ LET pm == RegisterPluginMap(customPlugins) IN
       /\ pluginMap' = pm
       /\ prePlugins' = appendRegistered(PrePlugins, pm, prePlugins)
       /\ postPlugins' = appendRegistered(PostPlugins, pm, postPlugins)
    /\ UNCHANGED <<envVars, lockVars, testMode, fn, InputsNil, PrePlugins, PostPlugins, sendVars, Inputs,
                   EventMeta, Out, Error, daprClient, closes, handlers, reg, name, rm,
                   stateA, crashed>>

\* ------------------------------------------------- RegisterOpenFunction
\* Context.InitDaprClientIfNil; built is whether dapr.NewClientWithPort
\* succeeds (it panics otherwise).
InitDaprClientIfNil(built) ==
    IF testMode \/ daprClient /= 0
    THEN UNCHANGED <<daprClient, closes, crashed>>
    ELSE IF built THEN /\ daprClient' = Len(closes) + 1
                       /\ closes' = Append(closes, 0)
                       /\ UNCHANGED crashed
                  ELSE crashed' = TRUE /\ UNCHANGED <<daprClient, closes>>

\* DestroyDaprClient closing the client and keeping the closed handle.
DestroyDaprClientKeep ==
    IF testMode \/ daprClient = 0
    THEN UNCHANGED <<daprClient, closes>>
    ELSE closes' = [closes EXCEPT ![daprClient] = @ + 1] /\ UNCHANGED daprClient

\* Context.DestroyDaprClient
DestroyDaprClient ==
    IF testMode \/ daprClient = 0
    THEN UNCHANGED <<daprClient, closes>>
    ELSE closes' = [closes EXCEPT ![daprClient] = @ + 1] /\ daprClient' = 0

\* RegisterOpenFunction up to the loop over the inputs.
RegisterBegin(built) ==
    /\ ~crashed
    /\ reg.pc = "new"
    /\ InitDaprClientIfNil(built)
    /\ LET r == [reg EXCEPT !.called = Append(@, "RegisterOpenFunction")] IN
       reg' = IF crashed' THEN [r EXCEPT !.pc = "panic"]
              ELSE IF ~HasInputs
              THEN [r EXCEPT !.pc = "done",
                             !.ret = Err("no inputs defined for the function")]
              ELSE IF DOMAIN Inputs = {}
              THEN [r EXCEPT !.pc = "done"]
              ELSE [r EXCEPT !.pc = "loop", !.todo = DOMAIN Inputs]
    /\ UNCHANGED <<cfgVars, Inputs, EventMeta, Out, Error, handlers, name, rm,
                   stateA>>

regVars == <<cfgVars, Inputs, EventMeta, Out, Error, daprClient, closes,
             handlers, name, rm, stateA, crashed>>

\* A registration method of the Async runtime that returns nil.
RegisterAccepted(method) ==
    /\ ~crashed
    /\ reg.pc = "new"
    /\ reg' = [reg EXCEPT !.pc = "done", !.called = Append(@, method)]
    /\ UNCHANGED regVars

\* A registration method of the Async runtime that only returns err.
RegisterRefused(method, err) ==
    /\ ~crashed
    /\ reg.pc = "new"
    /\ reg' = [reg EXCEPT !.pc = "done", !.ret = err,
                          !.called = Append(@, method)]
    /\ UNCHANGED regVars

\* RegisterHTTPFunction accepting the function and returning nil.
RegisterHTTPFunctionAccepted == RegisterAccepted("RegisterHTTPFunction")

\* Runtime.RegisterHTTPFunction of the Async runtime
RegisterHTTPFunction ==
    RegisterRefused("RegisterHTTPFunction",
                    Err("async runtime cannot register http function"))

\* Runtime.RegisterCloudEventFunction of the Async runtime
RegisterCloudEventFunction ==
    RegisterRefused("RegisterCloudEventFunction",
                    Err("async runtime cannot register cloudevent function"))

\* A registration method of the Knative runtime that registers the one
\* HTTP handler, at the configured path, and returns nil.
KnativeRegister(method, kind) ==
    /\ ~crashed
    /\ reg.pc = "new"
    /\ handlers' = {[kind |-> kind, key |-> "httpPattern"]}
    /\ reg' = [reg EXCEPT !.pc = "done", !.called = Append(@, method)]
    /\ UNCHANGED <<cfgVars, Inputs, EventMeta, Out, Error, daprClient, closes,
                   name, rm, stateA, crashed>>

\* Runtime.RegisterHTTPFunction of the Knative runtime
KnativeRegisterHTTPFunction == KnativeRegister("RegisterHTTPFunction", "http")

\* Runtime.RegisterCloudEventFunction of the Knative runtime
KnativeRegisterCloudEventFunction ==
    KnativeRegister("RegisterCloudEventFunction", "cloudevent")

\* Runtime.RegisterOpenFunction of the Knative runtime
KnativeRegisterOpenFunction ==
    RegisterRefused("RegisterOpenFunction",
                    Err("knative runtime cannot register event function"))

\* Framework.Register(ctx, fn) up to the registration method of fwk.runtime;
\* built is whether a dapr client can be constructed.
Register(built) ==
    LET shape == Classify(fn) IN
    IF shape = "http"
    THEN IF runtime = "knative" THEN KnativeRegisterHTTPFunction
         ELSE RegisterHTTPFunction
    ELSE IF shape = "openfunction"
    THEN IF runtime = "knative" THEN KnativeRegisterOpenFunction
         ELSE RegisterBegin(built)
    ELSE IF shape = "cloudevent"
    THEN IF runtime = "knative" THEN KnativeRegisterCloudEventFunction
         ELSE RegisterCloudEventFunction
    ELSE /\ ~crashed
         /\ reg.pc = "new"
         /\ reg' = [reg EXCEPT !.pc = "done", !.ret = Err("unrecognized function")]
         /\ UNCHANGED regVars

\* The loop body attaching a binding handler whatever the input's type.
RegisterInputAsBinding(n, accept) ==
    /\ ~crashed
    /\ reg.pc = "loop"
    /\ n \in reg.todo
    /\ name' = n
    /\ handlers' = handlers \cup {[kind |-> "binding", key |-> n]}
    /\ reg' = IF reg.todo = {n} THEN [reg EXCEPT !.pc = "done", !.todo = {}]
              ELSE [reg EXCEPT !.todo = @ \ {n}]
    /\ UNCHANGED <<cfgVars, Inputs, daprClient, closes, EventMeta, Out, Error, rm,
                   stateA, crashed>>

\* One iteration of `for name, input := range ctx.GetInputs()`; accept is
\* whether the dapr service accepts the handler.
RegisterInput(n, accept) ==
    /\ ~crashed
    /\ reg.pc = "loop"
    /\ n \in reg.todo
    /\ name' = n
    /\ LET input == Inputs[n]
           rest == reg.todo \ {n}
           kind == IF input.Type = OpenFuncBinding THEN "binding" ELSE "topic"
       IN
       IF input.Type \notin {OpenFuncBinding, OpenFuncTopic}
       THEN /\ reg' = [reg EXCEPT !.pc = "done",
                                  !.ret = Err("invalid input type")]
            /\ UNCHANGED <<Inputs, handlers, daprClient, closes>>
       ELSE /\ Inputs' = IF input.Type = OpenFuncBinding
                         THEN [Inputs EXCEPT ![n].Uri = input.Component]
                         ELSE Inputs
            /\ IF accept
               THEN /\ handlers' = handlers \cup {[kind |-> kind, key |-> n]}
                    /\ reg' = IF rest = {} THEN [reg EXCEPT !.pc = "done", !.todo = {}]
                              ELSE [reg EXCEPT !.todo = rest]
                    /\ UNCHANGED <<daprClient, closes>>
               ELSE /\ DestroyDaprClient
                    /\ reg' = [reg EXCEPT !.pc = "done",
                                          !.ret = Err("dapr service error")]
                    /\ UNCHANGED handlers
    /\ UNCHANGED <<cfgVars, EventMeta, Out, Error, rm, stateA, crashed>>

\* ------------------------------------------------------ calls on the context
ctxVars == <<envVars, lockVars, testMode, fn, InputsNil, Inputs, Outputs, OutputsNil, EventMeta, Out,
             Error, PrePlugins, PostPlugins, pluginMap, prePlugins, postPlugins,
             handlers, reg, name, rm, stateA>>

\* A call of ctx.InitDaprClientIfNil().
ContextInitDaprClientIfNil(built) ==
    /\ ~crashed
    /\ Len(closes) < MaxClients
    /\ InitDaprClientIfNil(built)
    /\ UNCHANGED <<ctxVars, broker, sent>>

\* A call of ctx.DestroyDaprClient().
ContextDestroyDaprClient ==
    /\ ~crashed
    /\ DestroyDaprClient
    /\ UNCHANGED <<ctxVars, broker, sent, crashed>>

\* The events handed to SetEventMeta: a *BindingEvent, a *TopicEvent, a
\* *cloudevents.Event, and a value of another type.
MetaEventKinds == {"binding", "topic", "cloudevent", "other"}

MetaEvent(kind) ==
    [kind |-> kind,
     v |-> CASE kind = "binding" -> [Data |-> <<"binding", 1>>]
             [] kind = "topic" -> [Data |-> [isBytes |-> TRUE, v |-> <<"topic", 1>>]]
             [] kind = "cloudevent" -> [ID |-> <<"id", 1>>, Data |-> <<"msg", 1>>]
             [] kind = "other" -> [String |-> <<"event", 1>>]]

\* The type switch of SetEventMeta storing a value of another type as the
\* binding event.
SetEventMetaToAny(meta, inputName, event) ==
    [meta EXCEPT !.BindingEvent = IF event.kind \in {"binding", "other"}
                                  THEN Ptr(event.v) ELSE @,
                 !.TopicEvent = IF event.kind = "topic" THEN Ptr(event.v) ELSE @,
                 !.CloudEvent = IF event.kind = "cloudevent" THEN Ptr(event.v) ELSE @,
                 !.InputName = inputName]

\* Context.SetEventMeta(inputName, event) on the metadata meta: the type
\* switch stores a binding event, a topic event or a CloudEvent in its
\* slot and only logs for any other type; InputName is set in every case.
SetEventMetaTo(meta, inputName, event) ==
    [meta EXCEPT !.BindingEvent = IF event.kind = "binding" THEN Ptr(event.v) ELSE @,
                 !.TopicEvent = IF event.kind = "topic" THEN Ptr(event.v) ELSE @,
                 !.CloudEvent = IF event.kind = "cloudevent" THEN Ptr(event.v) ELSE @,
                 !.InputName = inputName]

\* A call of ctx.SetEventMeta(inputName, event).
ContextSetEventMeta(inputName, event) ==
    /\ ~crashed
    /\ EventMeta' = SetEventMetaTo(EventMeta, inputName, event)
    /\ UNCHANGED <<envVars, lockVars, testMode, fn, InputsNil, Inputs, sendVars,
                   Out, Error, daprClient, closes, PrePlugins, PostPlugins,
                   pluginMap, prePlugins, postPlugins, handlers, reg, name, rm,
                   stateA, crashed>>

\* The payloads handed to Send.
SendData == { <<"data", 1>> }

\* What the sidecar answers to a call: an error, a response event, or nil.
BrokerReplies ==
    { [resp |-> Nil, err |-> Err("broker error")],
      [resp |-> Ptr([Data |-> <<"response">>]), err |-> NoError],
      [resp |-> Nil, err |-> NoError] }

\* The call the client makes on the sidecar for an output.
BrokerCall(output, data) ==
    IF output.Type = OpenFuncTopic
    THEN [op |-> "PublishEvent", client |-> daprClient,
          pubsubName |-> output.Component, topicName |-> output.Uri,
          data |-> data]
    ELSE [op |-> "InvokeBinding", client |-> daprClient,
          Name |-> output.Component, Operation |-> output.Operation,
          Data |-> data, Metadata |-> output.Metadata]

\* Send(outputName, in) returning (data, err) after calls calls of the sidecar.
Returned(outputName, in, calls, data, err) ==
    Ptr([outputName |-> outputName, in |-> in, calls |-> calls,
         data |-> data, err |-> err])

\* Context.Send(outputName, data); r is the sidecar's answer if it is called.
\* A call on the nil client panics.
Send(outputName, data, r) ==
    /\ ~crashed
    /\ Len(broker) < MaxSends
    /\ IF HasOutputs
       THEN /\ sent' = Returned(outputName, data, 0, Nil, Err("no output"))
            /\ UNCHANGED <<broker, crashed>>
       ELSE IF outputName \notin DOMAIN Outputs
       THEN /\ sent' = Returned(outputName, data, 0, Nil,
                                Err("output " \o outputName \o " not found"))
            /\ UNCHANGED <<broker, crashed>>
       ELSE LET output == Outputs[outputName] IN
            IF ~ValidType(output.Type)
            THEN /\ sent' = Returned(outputName, data, 0, Nil, NoError)
                 /\ UNCHANGED <<broker, crashed>>
            ELSE IF daprClient = 0
            THEN crashed' = TRUE /\ UNCHANGED <<broker, sent>>
            ELSE /\ broker' = Append(broker, BrokerCall(output, data))
                 /\ sent' = IF r.err /= NoError
                            THEN Returned(outputName, data, 1, Nil, r.err)
                            ELSE IF output.Type = OpenFuncBinding /\ r.resp /= Nil
                            THEN Returned(outputName, data, 1, r.resp[1].Data, NoError)
                            ELSE Returned(outputName, data, 1, Nil, NoError)
                 /\ UNCHANGED crashed
    /\ UNCHANGED <<ctxVars, daprClient, closes>>

\* The calls a function makes on its context.
NextContext ==
    \/ \E built \in BOOLEAN : ContextInitDaprClientIfNil(built)
    \/ ContextDestroyDaprClient
    \/ \E inputName \in InputNames, kind \in MetaEventKinds :
          ContextSetEventMeta(inputName, MetaEvent(kind))
    \/ \E outputName \in OutputNames \cup {"out3"}, data \in SendData,
          r \in BrokerReplies : Send(outputName, data, r)

SpecContext == InitContext /\ [][NextContext]_vars

\* ------------------------------------- the client methods, step by step
\* The context with one binding input, holding a dapr client or none,
\* before any goroutine calls InitDaprClientIfNil or DestroyDaprClient.
InitClient ==
    /\ testMode \in BOOLEAN
    /\ fn = OpenFunction
    /\ InputsNil = FALSE
    /\ Inputs = [n \in {"in1"} |-> InputOf(OpenFuncBinding, n)]
    /\ Outputs = <<>>
    /\ OutputsNil = FALSE
    /\ PrePlugins = <<>>
    /\ PostPlugins = <<>>
    /\ InitAsync
    /\ \E held \in BOOLEAN :
          /\ daprClient = IF held THEN 1 ELSE 0
          /\ closes = IF held THEN <<0>> ELSE <<>>
    /\ InitIdle

clientRest == <<envVars, testMode, fn, InputsNil, Inputs, Outputs, OutputsNil,
                EventMeta, Out, Error, PrePlugins, PostPlugins, pluginMap,
                prePlugins, postPlugins, handlers, reg, name, rm, stateA,
                broker, sent>>

\* Goroutine g calls InitDaprClientIfNil ("init") or DestroyDaprClient
\* ("destroy"): in test mode the method returns at once.
ClientCall(g, op) ==
    /\ ~crashed
    /\ caller[g].pc = "idle"
    /\ caller' = [caller EXCEPT ![g].op = op,
                                ![g].pc = IF testMode THEN "done" ELSE "check"]
    /\ UNCHANGED <<clientRest, daprClient, closes, mu, crashed>>

\* What a read of ctx.daprClient made without the mutex may return: the
\* field, or what it held before the write of a goroutine that has not
\* released the mutex yet.
Reads(g) ==
    {daprClient} \cup
    { caller[h].old : h \in {x \in Callers : x /= g /\ caller[x].pc = "written"} }

\* `if ctx.daprClient == nil` of InitDaprClientIfNil, read without the
\* mutex.
InitCheck(g, seen) ==
    /\ ~crashed
    /\ caller[g].op = "init"
    /\ caller[g].pc = "check"
    /\ seen \in Reads(g)
    /\ caller' = [caller EXCEPT ![g].pc = IF seen = 0 THEN "lock" ELSE "done"]
    /\ UNCHANGED <<clientRest, daprClient, closes, mu, crashed>>

\* `if ctx.daprClient != nil` of DestroyDaprClient, read without the mutex.
DestroyCheck(g, seen) ==
    /\ ~crashed
    /\ caller[g].op = "destroy"
    /\ caller[g].pc = "check"
    /\ seen \in Reads(g)
    /\ caller' = [caller EXCEPT ![g].pc = IF seen /= 0 THEN "lock" ELSE "done"]
    /\ UNCHANGED <<clientRest, daprClient, closes, mu, crashed>>

\* ctx.mu.Lock()
ClientLock(g) ==
    /\ ~crashed
    /\ caller[g].pc = "lock"
    /\ mu = 0
    /\ mu' = g
    /\ caller' = [caller EXCEPT ![g].pc = "locked"]
    /\ UNCHANGED <<clientRest, daprClient, closes, crashed>>

\* c, e := dapr.NewClientWithPort(...); panic(e) or ctx.daprClient = c.
\* built is whether the client can be constructed.
InitWrite(g, built) ==
    /\ ~crashed
    /\ caller[g].op = "init"
    /\ caller[g].pc = "locked"
    /\ IF built
       THEN /\ daprClient' = Len(closes) + 1
            /\ closes' = Append(closes, 0)
            /\ caller' = [caller EXCEPT ![g].pc = "written", ![g].old = daprClient]
            /\ UNCHANGED crashed
       ELSE /\ crashed' = TRUE
            /\ caller' = [caller EXCEPT ![g].pc = "panic"]
            /\ UNCHANGED <<daprClient, closes>>
    /\ UNCHANGED <<clientRest, mu>>

\* ctx.daprClient.Close(); ctx.daprClient = nil. Close() on the nil
\* interface panics.
DestroyWrite(g) ==
    /\ ~crashed
    /\ caller[g].op = "destroy"
    /\ caller[g].pc = "locked"
    /\ IF daprClient /= 0
       THEN /\ closes' = [closes EXCEPT ![daprClient] = @ + 1]
            /\ daprClient' = 0
            /\ caller' = [caller EXCEPT ![g].pc = "written", ![g].old = daprClient]
            /\ UNCHANGED crashed
       ELSE /\ crashed' = TRUE
            /\ caller' = [caller EXCEPT ![g].pc = "panic"]
            /\ UNCHANGED <<daprClient, closes>>
    /\ UNCHANGED <<clientRest, mu>>

\* defer ctx.mu.Unlock(), and the method returns.
ClientUnlock(g) ==
    /\ ~crashed
    /\ caller[g].pc = "written"
    /\ mu' = 0
    /\ caller' = [caller EXCEPT ![g].pc = "done"]
    /\ UNCHANGED <<clientRest, daprClient, closes, crashed>>

\* Goroutines calling the client methods of one context concurrently.
NextClient ==
    \/ \E g \in Callers, op \in {"init", "destroy"} : ClientCall(g, op)
    \/ \E g \in Callers, seen \in 0..MaxCallers : InitCheck(g, seen)
    \/ \E g \in Callers, seen \in 0..MaxCallers : DestroyCheck(g, seen)
    \/ \E g \in Callers : ClientLock(g)
    \/ \E g \in Callers, built \in BOOLEAN : InitWrite(g, built)
    \/ \E g \in Callers : DestroyWrite(g)
    \/ \E g \in Callers : ClientUnlock(g)

SpecClient == InitClient /\ [][NextClient]_vars

\* ------------------------------------------------------ handler invocation
\* n entries of the step s, for the record of what an invocation has done.
Steps(s, n) == [k \in 1..n |-> s]

Serving == ~crashed /\ reg.pc = "done" /\ reg.ret = NoError

\* The dapr service calls handler h with event ev: the handler's first
\* statement, runtime.NewRuntimeManager(ctx, prePlugins, postPlugins).
NewRuntimeManager(i, h, ev) ==
    /\ Serving
    /\ rm[i].pc = "idle"
    /\ \A j \in Inv : j < i => rm[j].pc /= "idle"
    /\ h \in handlers
    /\ LET r == RuntimeManagerInit(prePlugins, postPlugins, i) IN
       rm' = [rm EXCEPT ![i] =
                [IdleRm EXCEPT !.pc = "meta", !.kind = h.kind, !.key = h.key,
                               !.ev = Ptr(ev), !.FuncOut = NewFuncOut,
                               !.prePlugins = r.prePlugins,
                               !.postPlugins = r.postPlugins,
                               !.pluginState = r.pluginState,
                               !.inits = r.inits,
                               !.steps = Steps("init", Len(r.inits))]]
    /\ UNCHANGED <<cfgVars, Inputs, EventMeta, Out, Error, daprClient, closes, handlers,
                   reg, name, stateA, crashed>>

\* Context.SetEventMeta(name, event): name is the loop variable the handler
\* closure captured.
SetEventMeta(i) ==
    /\ ~crashed
    /\ rm[i].pc = "meta"
    /\ rm[i].kind \in {"binding", "topic"}
    /\ EventMeta' = IF rm[i].kind = "binding"
                    THEN [EventMeta EXCEPT !.BindingEvent = rm[i].ev,
                                           !.InputName = name]
                    ELSE [EventMeta EXCEPT !.TopicEvent = rm[i].ev,
                                           !.InputName = name]
    /\ rm' = [rm EXCEPT ![i].pc = IF rm[i].prePlugins = <<>> THEN "call" ELSE "pre"]
    /\ UNCHANGED <<cfgVars, Inputs, Out, Error, daprClient, closes, handlers, reg, name,
                   stateA, crashed>>

\* ProcessPreHooks returning at once, executing no hook.
preLoopNone(i, plgs, k, failed, st, log) == [stateA |-> st, log |-> log]

\* The loop of RuntimeManager.ProcessPreHooks from entry k on. ExecPreHook
\* records the invocation in the plugin's state; with failed it returns an
\* error, which is logged as a warning and changes nothing. st is stateA,
\* log the executions so far.
RECURSIVE preLoop(_, _, _, _, _, _)
preLoop(i, plgs, k, failed, st, log) ==
    IF k > Len(plgs) THEN [stateA |-> st, log |-> log]
    ELSE LET plg == plgs[k]
             seen == IF plg.id \in DOMAIN st THEN st[plg.id] ELSE 0
             written == [x \in DOMAIN st \cup {plg.id} |->
                            IF x = plg.id THEN i ELSE st[x]]
         IN preLoop(i, plgs, k + 1, failed, written,
                    Append(log, [phase |-> "pre", plg |-> plg, seen |-> seen]))

\* RuntimeManager.ProcessPreHooks; failed is whether the ExecPreHook calls
\* return an error (rm[i].failed remembers that hooks of the invocation did).
ProcessPreHooks(i, failed) ==
    /\ ~crashed
    /\ rm[i].pc = "pre"
    /\ LET r == preLoop(i, rm[i].prePlugins, 1, failed, stateA, rm[i].log) IN
       /\ stateA' = r.stateA
       /\ rm' = [rm EXCEPT ![i].log = r.log,
                           ![i].steps = @ \o Steps("pre", Len(r.log) - Len(rm[i].log)),
                           ![i].failed = @ \/ failed,
                           ![i].pc = "call"]
    /\ UNCHANGED <<cfgVars, Inputs, EventMeta, Out, Error, daprClient, closes, handlers,
                   reg, name, crashed>>

\* The input taken from the topic event first, then the binding event.
FunctionInputTopicFirst ==
    IF GetTopicEventMeta /= Nil
    THEN convertTopicEventToByte(GetTopicEventMeta[1].Data)
    ELSE IF GetBindingEventMeta /= Nil THEN GetBindingEventMeta[1].Data
         ELSE Nil

\* The input FunctionRunWrapperWithHooks hands to an event function.
FunctionInput ==
    IF GetBindingEventMeta /= Nil THEN GetBindingEventMeta[1].Data
    ELSE IF GetTopicEventMeta /= Nil
         THEN convertTopicEventToByte(GetTopicEventMeta[1].Data)
         ELSE Nil

\* FunctionRunWrapperWithHooks calls the function, which returns r =
\* (out, err); out.GetOut() on a nil FunctionOut panics.
CallFunction(i, r) ==
    /\ ~crashed
    /\ rm[i].pc = "call"
    /\ Classify(fn) = "openfunction"
    /\ rm' = [rm EXCEPT ![i].arg = FunctionInput,
                        ![i].fnOut = r[1],
                        ![i].fnErr = r[2],
                        ![i].steps = Append(@, "call"),
                        ![i].pc = IF r[1] = Nil THEN "panic" ELSE "out"]
    /\ crashed' = (r[1] = Nil)
    /\ UNCHANGED <<cfgVars, Inputs, EventMeta, Out, Error, daprClient, closes, handlers,
                   reg, name, stateA>>

\* rm.FuncContext.WithOut(out.GetOut())
WithOut(i) ==
    /\ ~crashed
    /\ rm[i].pc = "out"
    /\ Out' = rm[i].fnOut
    /\ rm' = [rm EXCEPT ![i].pc = "err", ![i].steps = Append(@, "out")]
    /\ UNCHANGED <<cfgVars, Inputs, EventMeta, Error, daprClient, closes, handlers, reg,
                   name, stateA, crashed>>

\* rm.FuncContext.WithError(err)
WithError(i) ==
    /\ ~crashed
    /\ rm[i].pc = "err"
    /\ Error' = rm[i].fnErr
    /\ rm' = [rm EXCEPT ![i].pc = IF rm[i].postPlugins = <<>> THEN "ret" ELSE "post",
                        ![i].steps = Append(@, "err")]
    /\ UNCHANGED <<cfgVars, Inputs, EventMeta, Out, daprClient, closes, handlers, reg,
                   name, stateA, crashed>>

\* The loop of ProcessPostHooks given up when a hook returns an error.
postLoopStop(plgs, k, failed, st, log) ==
    IF failed THEN log
    ELSE log \o [j \in 1..Len(plgs) |->
                   [phase |-> "post", plg |-> plgs[j],
                    seen |-> IF plgs[j].id \in DOMAIN st THEN st[plgs[j].id] ELSE 0]]

\* The loop of RuntimeManager.ProcessPostHooks from entry k on. ExecPostHook
\* reads the plugin's state; with failed it returns an error, which is
\* logged as a warning and changes nothing.
RECURSIVE postLoop(_, _, _, _, _)
postLoop(plgs, k, failed, st, log) ==
    IF k > Len(plgs) THEN log
    ELSE LET plg == plgs[k]
             seen == IF plg.id \in DOMAIN st THEN st[plg.id] ELSE 0
         IN postLoop(plgs, k + 1, failed, st,
                     Append(log, [phase |-> "post", plg |-> plg, seen |-> seen]))

\* RuntimeManager.ProcessPostHooks; failed is whether the ExecPostHook calls
\* return an error.
ProcessPostHooks(i, failed) ==
    /\ ~crashed
    /\ rm[i].pc = "post"
    /\ LET log == postLoop(rm[i].postPlugins, 1, failed, stateA, rm[i].log) IN
       rm' = [rm EXCEPT ![i].log = log,
                        ![i].steps = @ \o Steps("post", Len(log) - Len(rm[i].log)),
                        ![i].failed = @ \/ failed,
                        ![i].pc = "ret"]
    /\ UNCHANGED <<cfgVars, Inputs, EventMeta, Out, Error, daprClient, closes, handlers,
                   reg, name, stateA, crashed>>

\* The retry flag the topic handler reads from the metadata.
Retry(md) == \E kv \in md : kv[1] = "retry" /\ EqualFold(kv[2], "true")

\* switch rm.FuncOut.GetCode() in the binding invocation handler
BindingResult(funcOut) ==
    IF GetCode(funcOut) = Success
    THEN [data |-> GetData(funcOut), retry |-> FALSE, err |-> NoError]
    ELSE IF GetCode(funcOut) = InternalError
    THEN [data |-> Nil, retry |-> FALSE, err |-> GetError]
    ELSE [data |-> Nil, retry |-> FALSE, err |-> NoError]

\* switch rm.FuncOut.GetCode() in the topic event handler
TopicResult(funcOut) ==
    IF GetCode(funcOut) = Success
    THEN [data |-> Nil, retry |-> FALSE, err |-> NoError]
    ELSE IF GetCode(funcOut) = InternalError
    THEN [data |-> Nil, retry |-> Retry(GetMetadata(funcOut)), err |-> GetError]
    ELSE [data |-> Nil, retry |-> FALSE, err |-> NoError]

\* The handler returns to the dapr service.
Return(i) ==
    /\ ~crashed
    /\ rm[i].pc = "ret"
    /\ rm[i].kind \in {"binding", "topic"}
    /\ rm' = [rm EXCEPT ![i].pc = "done",
                        ![i].steps = Append(@, "done"),
                        ![i].ret = IF rm[i].kind = "binding"
                                   THEN BindingResult(rm[i].FuncOut)
                                   ELSE TopicResult(rm[i].FuncOut)]
    /\ UNCHANGED <<cfgVars, Inputs, EventMeta, Out, Error, daprClient, closes, handlers,
                   reg, name, stateA, crashed>>

\* ------------------------------------------------------- Knative runtime
\* Context.SetSyncRequestMeta(w, r), called by the HTTP handler of the
\* Knative runtime with the writer and the request of request i.
SetSyncRequestMeta(i) ==
    /\ ~crashed
    /\ rm[i].pc = "meta"
    /\ rm[i].kind = "http"
    /\ rm' = [rm EXCEPT ![i].FuncContext.SyncRequestMeta =
                            [ResponseWriter |-> Ptr(i), Request |-> rm[i].ev],
                        ![i].pc = IF rm[i].prePlugins = <<>> THEN "call" ELSE "pre"]
    /\ UNCHANGED <<cfgVars, Inputs, EventMeta, Out, Error, daprClient, closes,
                   handlers, reg, name, stateA, crashed>>

\* The CloudEvent handler of the Knative runtime before the dispatcher:
\* with set it calls Context.SetEventMeta with the *cloudevents.Event it
\* was delivered, otherwise the context keeps no CloudEvent.
SetCloudEventMeta(i, set) ==
    /\ ~crashed
    /\ rm[i].pc = "meta"
    /\ rm[i].kind = "cloudevent"
    /\ rm' = [rm EXCEPT ![i].FuncContext.CloudEvent = IF set THEN rm[i].ev ELSE Nil,
                        ![i].pc = IF rm[i].prePlugins = <<>> THEN "call" ELSE "pre"]
    /\ UNCHANGED <<cfgVars, Inputs, EventMeta, Out, Error, daprClient, closes,
                   handlers, reg, name, stateA, crashed>>

\* What an HTTP function may do: the chunks it writes, the status it sets
\* with WriteHeader (0: none), the error it returns.
HTTPBodies == { <<>>, <<"Hello World!">>, <<"Hello ">>, <<"Hello ", "World!">> }

HTTPRets(i) == HTTPBodies \X {0, 404} \X {NoError, FnError(i)}

\* http.ResponseWriter: WriteHeader and Write calls of a function on resp.
Written(resp, r) ==
    [status |-> IF r[2] /= 0 THEN r[2] ELSE resp.status, body |-> resp.body \o r[1]]

\* The HTTP branch writing the function's error to the response as well.
CallHTTPFunctionWriteError(i, r) ==
    /\ ~crashed
    /\ rm[i].pc = "call"
    /\ Classify(fn) = "http"
    /\ LET w == rm[i].FuncContext.SyncRequestMeta.ResponseWriter[1] IN
       rm' = [rm EXCEPT ![w].resp = Written(Written(@, r), <<<<r[3]>>, 0>>),
                        ![i].fnOut = Ptr([body |-> r[1], status |-> r[2]]),
                        ![i].fnErr = r[3],
                        ![i].FuncContext.Error = r[3],
                        ![i].steps = Append(@, "call"),
                        ![i].pc = IF rm[i].postPlugins = <<>> THEN "ret" ELSE "post"]
    /\ UNCHANGED <<cfgVars, Inputs, EventMeta, Out, Error, daprClient, closes,
                   handlers, reg, name, stateA, crashed>>

\* FunctionRunWrapperWithHooks, HTTP branch: the function is called with the
\* writer and the request of GetSyncRequestMeta() and does r; its error goes
\* to WithError.
CallHTTPFunction(i, r) ==
    /\ ~crashed
    /\ rm[i].pc = "call"
    /\ Classify(fn) = "http"
    /\ LET w == rm[i].FuncContext.SyncRequestMeta.ResponseWriter[1] IN
       rm' = [rm EXCEPT ![w].resp = Written(@, r),
                        ![i].fnOut = Ptr([body |-> r[1], status |-> r[2]]),
                        ![i].fnErr = r[3],
                        ![i].FuncContext.Error = r[3],
                        ![i].steps = Append(@, "call"),
                        ![i].pc = IF rm[i].postPlugins = <<>> THEN "ret" ELSE "post"]
    /\ UNCHANGED <<cfgVars, Inputs, EventMeta, Out, Error, daprClient, closes,
                   handlers, reg, name, stateA, crashed>>

\* The CloudEvent branch dereferencing GetCloudEventMeta() without the nil
\* check.
CallCloudEventFunctionDeref(i, err) ==
    /\ ~crashed
    /\ rm[i].pc = "call"
    /\ Classify(fn) = "cloudevent"
    /\ LET meta == rm[i].FuncContext.CloudEvent IN
       /\ rm' = IF meta = Nil THEN [rm EXCEPT ![i].pc = "panic"]
                ELSE [rm EXCEPT ![i].arg = meta,
                                ![i].fnErr = err,
                                ![i].FuncContext.Error = err,
                                ![i].steps = Append(@, "call"),
                                ![i].pc = IF rm[i].postPlugins = <<>> THEN "ret"
                                          ELSE "post"]
       /\ crashed' = (meta = Nil)
    /\ UNCHANGED <<cfgVars, Inputs, EventMeta, Out, Error, daprClient, closes,
                   handlers, reg, name, stateA>>

\* FunctionRunWrapperWithHooks, CloudEvent branch: ce is cloudevents.Event{}
\* unless GetCloudEventMeta() is not nil; the function is called with ce and
\* returns err, which goes to WithError.
CallCloudEventFunction(i, err) ==
    /\ ~crashed
    /\ rm[i].pc = "call"
    /\ Classify(fn) = "cloudevent"
    /\ LET meta == rm[i].FuncContext.CloudEvent
           ce == IF meta /= Nil THEN meta[1] ELSE EmptyEvent
       IN rm' = [rm EXCEPT ![i].arg = Ptr(ce),
                           ![i].fnErr = err,
                           ![i].FuncContext.Error = err,
                           ![i].steps = Append(@, "call"),
                           ![i].pc = IF rm[i].postPlugins = <<>> THEN "ret"
                                     ELSE "post"]
    /\ UNCHANGED <<cfgVars, Inputs, EventMeta, Out, Error, daprClient, closes,
                   handlers, reg, name, stateA, crashed>>

StatusOK == 200

\* The handler of the Knative runtime returns. An HTTP response whose
\* function set no status is sent with status 200; the CloudEvent receiver
\* answers 200 when the function returned no error.
KnativeReturn(i) ==
    /\ ~crashed
    /\ rm[i].pc = "ret"
    /\ rm[i].kind \in {"http", "cloudevent"}
    /\ rm' = [rm EXCEPT ![i].pc = "done",
                        ![i].steps = Append(@, "done"),
                        ![i].resp.status =
                            IF rm[i].kind = "http"
                            THEN IF @ = 0 THEN StatusOK ELSE @
                            ELSE IF rm[i].FuncContext.Error = NoError THEN StatusOK
                                 ELSE 500]
    /\ UNCHANGED <<cfgVars, Inputs, EventMeta, Out, Error, daprClient, closes,
                   handlers, reg, name, stateA, crashed>>

Events(i, h) ==
    CASE h.kind = "binding" -> BindingEvents(i)
      [] h.kind = "topic" -> TopicEvents(i)
      [] h.kind = "http" -> Requests(i)
      [] h.kind = "cloudevent" -> CloudEvents(i)

\* Registration and event handling with no hook configured: the loops of
\* ProcessPreHooks and ProcessPostHooks have nothing to iterate over.
Next ==
    \/ \E built \in BOOLEAN : Register(built)
    \/ \E n \in InputNames, accept \in BOOLEAN : RegisterInput(n, accept)
    \/ \E i \in Inv, h \in handlers : \E ev \in Events(i, h) : NewRuntimeManager(i, h, ev)
    \/ \E i \in Inv : SetEventMeta(i)
    \/ \E i \in Inv : \E r \in FnRets(i) : CallFunction(i, r)
    \/ \E i \in Inv : WithOut(i)
    \/ \E i \in Inv : WithError(i)
    \/ \E i \in Inv : Return(i)

Spec == Init /\ [][Next]_vars

\* Registration and event handling with hooks, the function body returning
\* a success or a nil FunctionOut.
NextHooks ==
    \/ \E customPlugins \in CustomPluginMaps : RegisterPlugins(customPlugins)
    \/ \E built \in BOOLEAN : Register(built)
    \/ \E n \in InputNames, accept \in BOOLEAN : RegisterInput(n, accept)
    \/ \E i \in Inv, h \in handlers : \E ev \in Events(i, h) : NewRuntimeManager(i, h, ev)
    \/ \E i \in Inv : SetEventMeta(i)
    \/ \E i \in Inv, failed \in BOOLEAN : ProcessPreHooks(i, failed)
    \/ \E i \in Inv : \E r \in FnRetsFew(i) : CallFunction(i, r)
    \/ \E i \in Inv : WithOut(i)
    \/ \E i \in Inv : WithError(i)
    \/ \E i \in Inv, failed \in BOOLEAN : ProcessPostHooks(i, failed)
    \/ \E i \in Inv : Return(i)

SpecHooks == InitHooks /\ [][NextHooks]_vars

\* The framework NewFramework returned for a configuration with runtime
\* Knative, with no hook or with the default plugin before and after.
InitKnative ==
    /\ env = Nil
    /\ parsed = Nil
    /\ runtime = NewKnativeRuntime
    /\ created = Nil
    /\ testMode = FALSE
    /\ fn \in {HTTPFunction, CloudEventFunction, OpenFunction}
    /\ InputsNil = FALSE
    /\ Inputs = <<>>
    /\ Outputs = <<>>
    /\ OutputsNil = FALSE
    /\ \E c \in {<<>>, <<"A">>} : PrePlugins = c /\ PostPlugins = c
    /\ InitCommon

\* Registration and request handling on the Knative runtime.
NextKnative ==
    \/ \E customPlugins \in CustomPluginMaps : RegisterPlugins(customPlugins)
    \/ \E built \in BOOLEAN : Register(built)
    \/ \E i \in Inv, h \in handlers : \E ev \in Events(i, h) : NewRuntimeManager(i, h, ev)
    \/ \E i \in Inv : SetSyncRequestMeta(i)
    \/ \E i \in Inv, set \in BOOLEAN : SetCloudEventMeta(i, set)
    \/ \E i \in Inv, failed \in BOOLEAN : ProcessPreHooks(i, failed)
    \/ \E i \in Inv : \E r \in HTTPRets(i) : CallHTTPFunction(i, r)
    \/ \E i \in Inv : \E err \in {NoError, FnError(i)} : CallCloudEventFunction(i, err)
    \/ \E i \in Inv, failed \in BOOLEAN : ProcessPostHooks(i, failed)
    \/ \E i \in Inv : KnativeReturn(i)

SpecKnative == InitKnative /\ [][NextKnative]_vars

\* The event metadata a context may hold when FunctionRunWrapperWithHooks
\* is called: a binding event or none, and a topic event or none, the
\* topic payload being bytes, a value json.Marshal encodes or one it does
\* not.
EventMetas ==
    { [InputName |-> "in1", BindingEvent |-> b, TopicEvent |-> t,
       CloudEvent |-> Nil] :
        b \in {Nil} \cup {Ptr(e) : e \in BindingEvents(1)},
        t \in {Nil} \cup {Ptr(e) : e \in TopicEvents(1)}
               \cup {Ptr([Data |-> [isBytes |-> FALSE, v |-> <<"chan", 1>>]])} }

\* A RuntimeManager of the Async runtime about to call an event function,
\* on a context holding any event metadata.
InitDispatch ==
    /\ testMode = FALSE
    /\ fn = OpenFunction
    /\ InputsNil = FALSE
    /\ Inputs = [n \in {"in1"} |-> InputOf(OpenFuncBinding, n)]
    /\ Outputs = <<>>
    /\ OutputsNil = FALSE
    /\ PrePlugins = <<>>
    /\ PostPlugins = <<>>
    /\ InitAsync
    /\ EventMeta \in EventMetas
    /\ Out = Nil
    /\ Error = NoError
    /\ daprClient = 0
    /\ closes = <<>>
    /\ mu = 0
    /\ caller = [g \in Callers |-> IdleCaller]
    /\ broker = <<>>
    /\ sent = Nil
    /\ handlers = {}
    /\ reg = [pc |-> "done", todo |-> {}, ret |-> NoError,
              called |-> <<"RegisterOpenFunction">>]
    /\ name = "in1"
    /\ pluginMap = <<>>
    /\ prePlugins = <<>>
    /\ postPlugins = <<>>
    /\ rm = [i \in Inv |-> IF i = 1
                            THEN [IdleRm EXCEPT !.pc = "call",
                                                !.FuncOut = Ptr(NewFunctionOut)]
                            ELSE IdleRm]
    /\ stateA = <<>>
    /\ crashed = FALSE

\* FunctionRunWrapperWithHooks for an event function, no hook configured.
NextDispatch ==
    \/ \E i \in Inv : \E r \in FnRets(i) : CallFunction(i, r)
    \/ \E i \in Inv : WithOut(i)
    \/ \E i \in Inv : WithError(i)

SpecDispatch == InitDispatch /\ [][NextDispatch]_vars

\* ------------------------------------------------------------------ claims
Done(i) == rm[i].pc = "done"

\* The function body of invocation i has been called.
Called(i) == rm[i].pc \in {"out", "err", "post", "ret", "done", "panic"}

TrueSpellings == {"true", "TRUE", "True"}

RetryRequested(md) == \E kv \in md : kv[1] = "retry" /\ kv[2] \in TrueSpellings

\* C1: a topic handler whose function returned a Result with code
\* InternalError returns the function's error, with retry = true exactly
\* when the Result's metadata "retry" is "true" in any letter case.
C1_TopicInternalErrorRetry ==
    \A i \in Inv :
        (Done(i) /\ rm[i].kind = "topic" /\ GetCode(rm[i].fnOut) = InternalError)
        => /\ rm[i].ret.err = rm[i].fnErr
           /\ rm[i].ret.retry = RetryRequested(GetMetadata(rm[i].fnOut))

\* C2: a binding handler returns the Result's data and no error on Success,
\* no data and the invocation's error on InternalError, and no data and no
\* error on any other code.
C2_BindingResultMapping ==
    \A i \in Inv :
        (Done(i) /\ rm[i].kind = "binding")
        => LET code == GetCode(rm[i].fnOut) IN
           /\ code = Success
              => rm[i].ret.data = GetData(rm[i].fnOut) /\ rm[i].ret.err = NoError
           /\ code = InternalError
              => rm[i].ret.data = Nil /\ rm[i].ret.err = rm[i].fnErr
           /\ code \notin {Success, InternalError}
              => rm[i].ret.data = Nil /\ rm[i].ret.err = NoError

\* C3: a topic handler whose function returned any code other than
\* InternalError returns (retry = false, error = nil).
C3_TopicNoRetryUnlessInternalError ==
    \A i \in Inv :
        (Done(i) /\ rm[i].kind = "topic" /\ GetCode(rm[i].fnOut) /= InternalError)
        => rm[i].ret.retry = FALSE /\ rm[i].ret.err = NoError

\* C4: the Result a handler inspects after the post-hooks is the Result the
\* function body returned in the same invocation.
C4_InspectedResultIsOwn ==
    \A i \in Inv : Done(i) => rm[i].FuncOut = rm[i].fnOut

\* C5: invocations do not share a context: an error a handler returns is the
\* error its own function call returned.
C5_ReturnedErrorIsOwn ==
    \A i \in Inv :
        (Done(i) /\ rm[i].ret.err /= NoError) => rm[i].ret.err = rm[i].fnErr

\* The payload, as bytes, of the event that triggered invocation i.
EventBytes(i) ==
    IF rm[i].kind = "binding" THEN rm[i].ev[1].Data
    ELSE convertTopicEventToByte(rm[i].ev[1].Data)

\* C6: the bytes passed to the function are the payload of the event that
\* triggered the invocation.
C6_FunctionGetsOwnEvent ==
    \A i \in Inv : Called(i) => rm[i].arg = EventBytes(i)

\* C7: RegisterOpenFunction on a context with zero inputs returns the
\* no-inputs-defined error and has attached no handler.
C7_NoInputsRejected ==
    (reg.pc = "done" /\ reg.called = <<"RegisterOpenFunction">>
       /\ DOMAIN Inputs = {})
    => /\ reg.ret = Err("no inputs defined for the function")
       /\ handlers = {}

\* The hook names of a plugin list.
Names(list) == { list[k].Name : k \in DOMAIN list }

\* The Init() calls of invocation i made on the plugin named n.
InitsOf(i, n) == { k \in DOMAIN rm[i].inits : rm[i].inits[k].Name = n }

\* Every entry of the resolved list is the instance Init() returned for the
\* name at the same place of the configured list.
Resolved(i, configured, resolved) ==
    /\ Len(resolved) = Len(configured)
    /\ \A k \in DOMAIN configured :
          \E j \in InitsOf(i, configured[k].Name) : resolved[k] = rm[i].inits[j]

\* C8: within one invocation Init() is called exactly once for each distinct
\* hook name of the pre-hook and post-hook lists, and every occurrence of the
\* name in either list is the instance that Init() returned.
C8_InitOncePerName ==
    \A i \in Inv :
        rm[i].pc /= "idle"
        => /\ \A n \in HookNames :
                 Cardinality(InitsOf(i, n)) =
                     IF n \in Names(prePlugins) \cup Names(postPlugins) THEN 1 ELSE 0
           /\ Resolved(i, prePlugins, rm[i].prePlugins)
           /\ Resolved(i, postPlugins, rm[i].postPlugins)

\* A name occurs twice in one list and a name occurs in both lists.
C8_Witness ==
    \E i \in Inv :
        /\ Done(i)
        /\ Names(prePlugins) \cap Names(postPlugins) /= {}
        /\ Len(prePlugins) > Cardinality(Names(prePlugins))

\* The pre-hook executions of plugin n that precede entry k of i's log.
PreRuns(i, k, n) ==
    { j \in 1..(k - 1) : rm[i].log[j].phase = "pre" /\ rm[i].log[j].plg.Name = n }

\* C9: a post-hook runs on the instance its pre-hook ran on and sees the
\* state that pre-hook wrote; no hook sees state written in another
\* invocation.
C9_HookStateWithinInvocation ==
    \A i \in Inv : \A k \in DOMAIN rm[i].log :
        LET e == rm[i].log[k] IN
        /\ e.seen \in {0, i}
        /\ (e.phase = "post" /\ PreRuns(i, k, e.plg.Name) /= {})
           => /\ e.seen = i
              /\ \A j \in PreRuns(i, k, e.plg.Name) : rm[i].log[j].plg = e.plg

\* Pre-hooks [A,B] and post-hooks [B,A]; both invocations ran them all.
C9_Witness ==
    /\ prePlugins = <<RegistryPlugin("A"), CustomPlugin("B")>>
    /\ postPlugins = <<CustomPlugin("B"), RegistryPlugin("A")>>
    /\ \A i \in Inv : Done(i) /\ Len(rm[i].log) = 4

\* C10: once a hook has returned an error the invocation still runs the
\* remaining pre-hooks, the function body and every post-hook, and completes.
C10_HookFailureNeverAborts ==
    \A i \in Inv :
        (rm[i].failed /\ rm[i].pc \in {"done", "panic"})
        => /\ rm[i].pc = "done"
           /\ Len(rm[i].log) = Len(prePlugins) + Len(postPlugins)

\* The place of a step in Init, PreHooks, FunctionBody, PostHooks, Done.
Rank(s) == CASE s = "init" -> 1 [] s = "pre" -> 2 [] s = "call" -> 3
             [] s = "out" -> 4 [] s = "err" -> 5 [] s = "post" -> 6
             [] s = "done" -> 7

Count(steps, s) == Cardinality({k \in DOMAIN steps : steps[k] = s})

\* C11: the steps of every invocation are in the order Init, PreHooks,
\* FunctionBody, PostHooks, Done: every Init() call and every pre-hook of the
\* list precede the function body, the body is called exactly once, and a
\* post-hook runs only after the body's Result and error were stored.
C11_PhaseOrder ==
    \A i \in Inv :
        LET s == rm[i].steps IN
        /\ \A a, b \in DOMAIN s : a < b => Rank(s[a]) <= Rank(s[b])
        /\ Count(s, "call") <= 1
        /\ Count(s, "call") = 1
           => /\ Count(s, "init") = Len(rm[i].inits)
              /\ Count(s, "pre") = Len(rm[i].prePlugins)
        /\ Count(s, "post") > 0
           => Count(s, "call") = 1 /\ Count(s, "out") = 1 /\ Count(s, "err") = 1
        /\ Done(i)
           => Count(s, "call") = 1 /\ Count(s, "post") = Len(rm[i].postPlugins)

\* An invocation with Init() calls, pre-hooks and post-hooks has completed.
C11_Witness ==
    \E i \in Inv :
        /\ Done(i)
        /\ Count(rm[i].steps, "init") = 2
        /\ Count(rm[i].steps, "pre") = 2
        /\ Count(rm[i].steps, "post") = 2

NameList(list) == [k \in DOMAIN list |-> list[k].Name]

Registered(n) == n \in DOMAIN pluginMap

IsPre(e) == e.phase = "pre"

IsPost(e) == e.phase = "post"

\* The names of the hooks invocation i has executed, in execution order.
Executed(log) == [k \in DOMAIN log |-> log[k].plg.Name]

ClientsSound ==
    /\ \A c \in DOMAIN closes : closes[c] <= 1
    /\ daprClient /= 0 => daprClient \in DOMAIN closes /\ closes[daprClient] = 0
    /\ \A c \in DOMAIN closes : c /= daprClient => closes[c] = 1

\* C13: outside test mode InitDaprClientIfNil after DestroyDaprClient leaves
\* the context with a newly constructed client, never a closed one;
\* DestroyDaprClient closes the client once and a second call in a row does
\* nothing.
C13_DestroyThenInitFresh ==
    [][ /\ ClientsSound'
        /\ (~testMode /\ ContextDestroyDaprClient) => daprClient' = 0
        /\ (daprClient = 0 /\ ContextDestroyDaprClient) => UNCHANGED vars
        /\ (~testMode /\ daprClient = 0 /\ ContextInitDaprClientIfNil(TRUE))
           => /\ daprClient' = Len(closes) + 1
              /\ closes' = Append(closes, 0) ]_vars

\* A client was destroyed and a second one constructed in its place.
C13_Witness == daprClient = 2 /\ closes = <<1, 0>>

\* C14: on the Async runtime RegisterHTTPFunction and
\* RegisterCloudEventFunction return an error at once, attach no handler and
\* create no dapr client; only RegisterOpenFunction can succeed.
C14_OnlyOpenFunctionRegisters ==
    /\ reg.called \in {<<"RegisterHTTPFunction">>, <<"RegisterCloudEventFunction">>}
       => /\ reg.pc = "done"
          /\ reg.ret /= NoError
          /\ handlers = {}
          /\ daprClient = 0 /\ closes = <<>>
    /\ Serving => reg.called = <<"RegisterOpenFunction">>

C14_Witness == reg.called = <<"RegisterHTTPFunction">> /\ ~testMode

Rejected == reg.pc = "done" /\ name \in reg.todo /\ ValidType(Inputs[name].Type)

\* C15: when the dapr service refuses a handler, RegisterOpenFunction
\* returns the service's error, the dapr client is destroyed and no handler
\* is attached for the refused input or any input not yet processed.
C15_BrokerRejection ==
    Rejected
    => /\ reg.ret = Err("dapr service error")
       /\ daprClient = 0
       /\ \A c \in DOMAIN closes : closes[c] = 1
       /\ \A h \in handlers : h.key \notin reg.todo

\* The second of two handlers was refused, outside test mode.
C15_Witness == Rejected /\ handlers /= {} /\ closes = <<1>>

\* C17: a configuration with an input whose type is neither bindings nor
\* pubsub does not get past parseContext: no dapr client is created and no
\* handler is attached for it.
C17_InvalidInputTypeRejected ==
    (\E n \in DOMAIN Inputs : ~ValidType(Inputs[n].Type))
    => closes = <<>> /\ handlers = {}

\* C18: after a successful parseContext every declared output has type
\* bindings or pubsub.
C18_OutputTypesValid ==
    \A n \in DOMAIN Outputs : ValidType(Outputs[n].Type)

\* C19: Send with the name of a declared output makes exactly one call of
\* the sidecar, a publish to (component, uri) with the data for a pubsub
\* output and a binding invocation with component, operation, data and
\* metadata for a bindings output.
C19_SendReachesBroker ==
    (sent /= Nil /\ sent[1].outputName \in DOMAIN Outputs
       /\ ValidType(Outputs[sent[1].outputName].Type))
    => /\ sent[1].calls = 1
       /\ broker /= <<>>
       /\ broker[Len(broker)] = BrokerCall(Outputs[sent[1].outputName], sent[1].in)

\* C20: Send with a name that is not a declared output returns the
\* output-not-found error and makes no call of the sidecar, whether or not
\* any output is declared.
C20_SendUnknownOutput ==
    (sent /= Nil /\ sent[1].outputName \notin DOMAIN Outputs)
    => /\ sent[1].err = Err("output " \o sent[1].outputName \o " not found")
       /\ sent[1].calls = 0
       /\ broker = <<>>

\* ---------------------------------------------------- configuration claims
KnownProviders == {TracingProviderSkywalking, TracingProviderOpentelemetry}

\* FUNC_CONTEXT enables tracing with a provider of a known name.
KnownProvider ==
    /\ env.PluginsTracing /= Nil
    /\ env.PluginsTracing[1].Enable
    /\ env.PluginsTracing[1].Provider /= Nil
    /\ env.PluginsTracing[1].Provider[1].Name \in KnownProviders

TracingName == env.PluginsTracing[1].Provider[1].Name

Occurrences(list, n) == Cardinality({k \in DOMAIN list : list[k] = n})

\* parseContext has returned a context and no error.
ParsedOk == parsed /= Nil /\ parsed[1].err = NoError /\ ~parsed[1].panic

\* C21: when tracing is enabled with a known provider whose name is absent
\* from the configured pre-plugins, after parseContext the name is the first
\* entry of the pre-plugins and the configured entries follow in order.
C21_PreHead ==
    (ParsedOk /\ KnownProvider /\ Occurrences(env.PrePlugins, TracingName) = 0)
        => /\ parsed[1].PrePlugins = <<TracingName>> \o env.PrePlugins
           /\ PrePlugins = parsed[1].PrePlugins

\* C22: when tracing is enabled with a known provider whose name is absent
\* from a non-empty configured post-plugins list, after parseContext the name
\* is the first entry and the configured entries follow it, each once and in
\* their configured order.
C22_PostHead ==
    (/\ parsed /= Nil
     /\ parsed[1].err = NoError
     /\ KnownProvider
     /\ env.PostPlugins /= <<>>
     /\ Occurrences(env.PostPlugins, TracingName) = 0)
        => /\ ~parsed[1].panic
           /\ parsed[1].PostPlugins = <<TracingName>> \o env.PostPlugins
           /\ PostPlugins = parsed[1].PostPlugins

C22_Witness ==
    /\ ParsedOk
    /\ env.PostPlugins = <<"B", "A">>
    /\ PostPlugins = <<TracingProviderSkywalking, "B", "A">>

\* C23: injecting the tracing name into the post-plugins is total and
\* idempotent: for every configured list, the empty one and one holding the
\* name further back included, parseContext does not panic, the result has
\* the name once and at index 0, and injecting again changes nothing.
C23_PostTotalIdempotent ==
    (parsed /= Nil /\ parsed[1].err = NoError /\ KnownProvider)
        => /\ ~parsed[1].panic
           /\ parsed[1].PostPlugins /= <<>>
           /\ parsed[1].PostPlugins[1] = TracingName
           /\ Occurrences(parsed[1].PostPlugins, TracingName) = 1
           /\ registerTracingPluginIntoPostPlugins(parsed[1].PostPlugins, TracingName)
                = [panic |-> FALSE, plugins |-> parsed[1].PostPlugins]

\* C24: with tracing enabled, parseContext returns an error when the provider
\* is absent, unnamed or not a known one; with tracing disabled or absent a
\* successful parseContext leaves the pre-plugins and post-plugins as
\* configured.
C24_TracingValidated ==
    parsed /= Nil =>
        /\ (/\ env.PluginsTracing /= Nil
            /\ env.PluginsTracing[1].Enable
            /\ \/ env.PluginsTracing[1].Provider = Nil
               \/ env.PluginsTracing[1].Provider[1].Name \notin KnownProviders)
               => parsed[1].err /= NoError /\ ~parsed[1].panic
        /\ (/\ (env.PluginsTracing = Nil \/ ~env.PluginsTracing[1].Enable)
            /\ parsed[1].err = NoError)
               => /\ ~parsed[1].panic
                  /\ parsed[1].PrePlugins = env.PrePlugins
                  /\ parsed[1].PostPlugins = env.PostPlugins
                  /\ PrePlugins = env.PrePlugins
                  /\ PostPlugins = env.PostPlugins

C24_Witness ==
    /\ parsed /= Nil
    /\ env.PluginsTracing = Ptr([Enable |-> TRUE, Provider |-> Ptr([Name |-> "zipkin"])])
    /\ parsed[1].err = Err("invalid tracing provider name")

\* C25: after a successful parseContext the runtime is Async or Knative, any
\* other runtime being an error, and createRuntime then builds the runtime of
\* that kind or reports an error: it never reports success with no runtime.
C25_RuntimeKind ==
    /\ parsed /= Nil =>
          /\ parsed[1].err = NoError => parsed[1].Runtime \in {Async, Knative}
          /\ env.Runtime \notin {Async, Knative} => parsed[1].err /= NoError
    /\ created /= Nil =>
          /\ parsed /= Nil /\ parsed[1].err = NoError
          /\ created[1].err = NoError =>
                /\ runtime /= ""
                /\ runtime = "async" <=> env.Runtime = Async
                /\ runtime = "knative" <=> env.Runtime = Knative
          /\ created[1].err /= NoError => runtime = ""

C25_Witness ==
    /\ created /= Nil
    /\ created[1].err = NoError
    /\ env.Runtime = Knative
    /\ runtime = "knative"

PodErrors ==
    { Err("the name of the pod cannot be retrieved from the environment"),
      Err("the namespace of the pod cannot be retrieved from the environment") }

\* C26: in Kubernetes mode (CONTEXT_MODE other than self-host) parseContext
\* fails when POD_NAME or POD_NAMESPACE is missing; in self-host mode neither
\* is asked for, and parseContext never fails for the lack of them.
C26_PodRequired ==
    parsed /= Nil =>
        /\ (/\ env.CONTEXT_MODE /= SelfHostMode
            /\ (env.POD_NAME = "" \/ env.POD_NAMESPACE = ""))
               => parsed[1].err /= NoError
        /\ env.CONTEXT_MODE = SelfHostMode => parsed[1].err \notin PodErrors
        /\ (/\ env.CONTEXT_MODE = SelfHostMode
            /\ env.Runtime \in {Async, Knative}
            /\ env.PluginsTracing = Nil
            /\ env.Port = "")
               => parsed[1].err = NoError

C26_Witness ==
    /\ parsed /= Nil
    /\ env.CONTEXT_MODE = ""
    /\ env.POD_NAME = "pod"
    /\ env.POD_NAMESPACE = ""
    /\ parsed[1].err \in PodErrors

\* In self-host mode parseContext succeeds with neither variable set.
C26_SelfHostParses ==
    /\ ParsedOk
    /\ env.CONTEXT_MODE = SelfHostMode
    /\ env.POD_NAME = ""
    /\ env.POD_NAMESPACE = ""

\* The names of the default plugins of RegisterPlugins.
DefaultNames == {"A"}

\* C27: after RegisterPlugins(customPlugins) every default name maps to the
\* default plugin even when customPlugins has an entry of that name, every
\* other custom name maps to the caller's plugin, and no other name is
\* registered.
C27_DefaultsWin ==
    [][\A customPlugins \in CustomPluginMaps :
          RegisterPlugins(customPlugins) =>
              /\ DOMAIN pluginMap' = DefaultNames \cup DOMAIN customPlugins
              /\ \A n \in DefaultNames : pluginMap'[n] = RegistryPlugin(n)
              /\ \A n \in DOMAIN customPlugins \ DefaultNames :
                    pluginMap'[n] = customPlugins[n]]_vars

C27_Witness ==
    /\ DOMAIN pluginMap = {"A", "B"}
    /\ pluginMap["A"] = RegistryPlugin("A")
    /\ pluginMap["A"] /= CustomPlugin("A")
    /\ pluginMap["B"] = CustomPlugin("B")

\* C30: a function that returns an error never crashes the invocation: for
\* every (FunctionOut, error) pair, a nil FunctionOut with an error included,
\* FunctionRunWrapperWithHooks goes on to WithError and the post-plugins
\* and returns.
C30_FunctionErrorNeverCrashes ==
    \A i \in Inv :
        (Called(i) /\ rm[i].fnErr /= NoError)
        => /\ rm[i].pc /= "panic"
           /\ ~crashed
           /\ Done(i) => /\ Count(rm[i].steps, "err") = 1
                          /\ Count(rm[i].steps, "post") = Len(rm[i].postPlugins)

\* C28: for an HTTP function registered on the Knative runtime, a handled
\* request has as response body exactly the bytes the function wrote to the
\* response writer, in the order written, and status 200 when the function
\* set none; before the function is called nothing has been written.
C28_HTTPResponseIsFunctionOutput ==
    \A i \in Inv :
        rm[i].kind = "http" =>
            /\ ~Called(i) => rm[i].resp = NoResponse
            /\ Called(i) => rm[i].resp.body = rm[i].fnOut[1].body
            /\ Done(i) => rm[i].resp.status =
                              IF rm[i].fnOut[1].status = 0 THEN StatusOK
                              ELSE rm[i].fnOut[1].status

C28_Witness ==
    \E i \in Inv :
        /\ Done(i)
        /\ rm[i].kind = "http"
        /\ rm[i].log /= <<>>
        /\ rm[i].fnOut[1] = [body |-> <<"Hello ", "World!">>, status |-> 0]
        /\ rm[i].resp = [status |-> StatusOK, body |-> <<"Hello ", "World!">>]

\* C29: a CloudEvent function never makes the dispatcher fault: it is
\* called with the event of the context, or with the empty event when the
\* context holds none, and when it returns no error the request is answered
\* with status 200.
C29_CloudEventCompletes ==
    \A i \in Inv :
        rm[i].kind = "cloudevent" =>
            /\ rm[i].pc /= "panic"
            /\ Called(i) =>
                  rm[i].arg = IF rm[i].FuncContext.CloudEvent /= Nil THEN rm[i].ev
                              ELSE Ptr(EmptyEvent)
            /\ (Done(i) /\ rm[i].fnErr = NoError) => rm[i].resp.status = StatusOK

C29_Witness ==
    \E i \in Inv :
        /\ Done(i)
        /\ rm[i].kind = "cloudevent"
        /\ rm[i].FuncContext.CloudEvent = Nil
        /\ rm[i].arg = Ptr(EmptyEvent)
        /\ rm[i].fnErr = NoError
        /\ rm[i].resp.status = StatusOK

\* C31: the handler registered for input X tags every invocation it handles
\* with X: SetEventMeta in that handler leaves X in EventMeta.InputName.
C31_TaggedWithOwnInput ==
    [][\A i \in Inv : SetEventMeta(i) => EventMeta'.InputName = rm[i].key]_vars

\* RegisterOpenFunction has returned nil.
RegisteredOpenFunction ==
    /\ ~crashed
    /\ reg.pc = "done"
    /\ reg.ret = NoError
    /\ reg.called = <<"RegisterOpenFunction">>

\* C32: after RegisterOpenFunction returned nil, every declared input has
\* exactly one handler, a binding handler for a bindings input and a topic
\* handler for a pubsub input, and there is no other handler.
C32_OneHandlerPerInput ==
    RegisteredOpenFunction =>
        /\ \A n \in DOMAIN Inputs :
              /\ Cardinality({h \in handlers : h.key = n}) = 1
              /\ Inputs[n].Type = OpenFuncBinding
                    => [kind |-> "binding", key |-> n] \in handlers
              /\ Inputs[n].Type = OpenFuncTopic
                    => [kind |-> "topic", key |-> n] \in handlers
        /\ Cardinality(handlers) = Cardinality(DOMAIN Inputs)

C32_Witness ==
    /\ RegisteredOpenFunction
    /\ DOMAIN Inputs = {"in1", "in2"}
    /\ handlers = {[kind |-> "binding", key |-> "in1"], [kind |-> "topic", key |-> "in2"]}

\* Every goroutine has returned from its call.
AllReturned(op) == \A g \in Callers : caller[g].op = op /\ caller[g].pc = "done"

\* C33: under any interleaving of concurrent InitDaprClientIfNil calls,
\* outside test mode, at most one client is ever constructed, and when all
\* the calls have returned the context holds that one client.
C33_InitOnce ==
    (~testMode /\ \A g \in Callers : caller[g].op \in {"", "init"})
        => /\ Len(closes) <= 1
           /\ AllReturned("init") => (Len(closes) = 1 /\ daprClient = 1)

\* C34: under any interleaving of concurrent DestroyDaprClient calls on a
\* context that holds a client, outside test mode, Close is never called on
\* a nil client, no client is closed twice, and when all the calls have
\* returned the client has been closed once.
C34_CloseOnce ==
    (~testMode /\ closes /= <<>> /\ \A g \in Callers : caller[g].op \in {"", "destroy"})
        => /\ ~crashed
           /\ \A k \in DOMAIN closes : closes[k] <= 1
           /\ AllReturned("destroy") => (closes = <<1>> /\ daprClient = 0)

\* The bytes of a topic payload: raw bytes as they are, any other value
\* JSON-encoded, nil when the encoding fails.
TopicBytes(data) ==
    IF data.isBytes THEN data.v
    ELSE IF data.v[1] = "chan" THEN Nil
    ELSE <<"json", data.v>>

\* C35: the dispatcher hands an event function the binding event's data if
\* the context holds a binding event, else the topic event's data as bytes if
\* it holds a topic event, else nil, and calls the function once.
C35_InputPriority ==
    [][\A i \in Inv : \A r \in FnRets(i) :
          CallFunction(i, r) =>
              /\ rm'[i].arg =
                    IF EventMeta.BindingEvent /= Nil THEN EventMeta.BindingEvent[1].Data
                    ELSE IF EventMeta.TopicEvent /= Nil
                    THEN TopicBytes(EventMeta.TopicEvent[1].Data)
                    ELSE Nil
              /\ Count(rm'[i].steps, "call") = 1]_vars

C35_Witness ==
    /\ Called(1)
    /\ EventMeta.BindingEvent /= Nil
    /\ EventMeta.TopicEvent /= Nil
    /\ rm[1].arg = EventMeta.BindingEvent[1].Data
    /\ Count(rm[1].steps, "call") = 1

\* C36: SetEventMeta called with an event that is neither a binding event,
\* a topic event nor a CloudEvent does not panic and writes none of the
\* three payload slots of the event metadata.
C36_UnknownEventLeavesPayload ==
    [][\A inputName \in InputNames :
          ContextSetEventMeta(inputName, MetaEvent("other"))
          => /\ ~crashed'
             /\ EventMeta'.BindingEvent = EventMeta.BindingEvent
             /\ EventMeta'.TopicEvent = EventMeta.TopicEvent
             /\ EventMeta'.CloudEvent = EventMeta.CloudEvent]_vars

\* Only a call with an event of another type leaves a name and no payload.
C36_Witness ==
    /\ EventMeta.InputName = "in2"
    /\ EventMeta.BindingEvent = Nil
    /\ EventMeta.TopicEvent = Nil
    /\ EventMeta.CloudEvent = Nil

\* C37: a hook that returns an error changes nothing of the invocation's
\* outcome: ProcessPreHooks and ProcessPostHooks with failing hooks still
\* execute every hook of the list, go on to the function call or to the
\* return, and leave the Result, the error slot and the process untouched.
C37_HookFailureKeepsOutcome ==
    [][\A i \in Inv :
          /\ ProcessPreHooks(i, TRUE) =>
                /\ Len(rm'[i].log) = Len(rm[i].log) + Len(rm[i].prePlugins)
                /\ rm'[i].pc = "call"
                /\ rm'[i].FuncOut = rm[i].FuncOut
                /\ <<Out, Error, crashed>>' = <<Out, Error, crashed>>
          /\ ProcessPostHooks(i, TRUE) =>
                /\ Len(rm'[i].log) = Len(rm[i].log) + Len(rm[i].postPlugins)
                /\ rm'[i].pc = "ret"
                /\ rm'[i].FuncOut = rm[i].FuncOut
                /\ rm'[i].fnOut = rm[i].fnOut
                /\ <<Out, Error, crashed>>' = <<Out, Error, crashed>>]_vars

\* An invocation whose hooks failed has returned the function's Result.
C37_Witness ==
    \E i \in Inv :
        /\ Done(i)
        /\ rm[i].failed
        /\ rm[i].postPlugins /= <<>>
        /\ rm[i].ret = BindingResult(rm[i].FuncOut)
        /\ rm[i].ret.data /= Nil

\* C38: when the post-hooks of an invocation execute, the context passed to
\* them holds the outcome of this invocation's function call: GetOut() is
\* the Result it returned and GetError() the error it returned.
C38_PostHookSeesOwnOutcome ==
    [][\A i \in Inv : \A failed \in BOOLEAN :
          ProcessPostHooks(i, failed) =>
              /\ GetOut = rm[i].fnOut
              /\ GetError = rm[i].fnErr]_vars

\* The hook names of a plugin list.
NamesOf(plgs) == {plgs[k].Name : k \in DOMAIN plgs}

\* The plugin-state map of invocation i has the distinct names of its two
\* hook lists as keys, each mapped to an instance made by Init() in this
\* invocation, and every list entry is the instance the map holds.
OwnPluginState(i) ==
    LET names == NamesOf(rm[i].prePlugins) \cup NamesOf(rm[i].postPlugins) IN
    /\ names = NamesOf(prePlugins) \cup NamesOf(postPlugins)
    /\ DOMAIN rm[i].pluginState = names
    /\ \A n \in names :
          /\ rm[i].pluginState[n].Name = n
          /\ rm[i].pluginState[n].id[1] = i
          /\ \E k \in DOMAIN rm[i].inits : rm[i].inits[k] = rm[i].pluginState[n]
    /\ \A k \in DOMAIN rm[i].prePlugins :
          rm[i].prePlugins[k] = rm[i].pluginState[rm[i].prePlugins[k].Name]
    /\ \A k \in DOMAIN rm[i].postPlugins :
          rm[i].postPlugins[k] = rm[i].pluginState[rm[i].postPlugins[k].Name]

\* C39: whenever the pre-hooks or the post-hooks of an invocation run, the
\* plugin-state map they receive has exactly the distinct hook names of the
\* invocation's two lists as keys, each mapped to the instance initialized
\* for this invocation.
C39_PluginStateComplete ==
    [][\A i \in Inv : \A failed \in BOOLEAN :
          (ProcessPreHooks(i, failed) \/ ProcessPostHooks(i, failed))
              => OwnPluginState(i)]_vars

\* The second invocation is about to run its post-hooks, after its two
\* pre-hooks, with a map of two hook names made for it.
C39_Witness ==
    /\ rm[2].pc = "post"
    /\ Len(rm[2].log) = 2
    /\ Cardinality(DOMAIN rm[2].pluginState) = 2
    /\ OwnPluginState(2)
    /\ Done(1)

\* C40: registration and event handling never modify the static
\* configuration: every declared input and output keeps the uri, component
\* and type that configuration parsing produced.
C40_ConfigurationReadOnly ==
    [][Inputs' = Inputs /\ Outputs' = Outputs]_vars

============================================================================
